---- MODULE Spec2Model ----
(***************************************************************************)
(* Model of ikamman/segment-trading: the append-only segment tree of       *)
(* src/segment.rs, the dispatcher / per-symbol worker fabric of            *)
(* src/manager.rs with the handlers of src/web.rs, the tree and worker of  *)
(* src/main.rs, and the sliding windows of src/interval_stat_deque.rs and  *)
(* src/datastore.rs.                                                       *)
(*                                                                         *)
(* f64 observations are drawn from small integers, on which every f64      *)
(* operation the code performs (min, max, sum, product) is exact.  The     *)
(* sizes the code fixes (1024 initial leaves, 10_000 values per batch,     *)
(* 100 slots per channel) are scaled down so that growth, oversize batches *)
(* and full channels happen within a few steps; the structure of the code  *)
(* is kept.                                                                *)
(***************************************************************************)
EXTENDS Integers, Sequences, FiniteSets, TLC

\* ---------------------------------------------------------------------
\* Program constants (scaled) and bounds of the exploration
\* ---------------------------------------------------------------------

\* segment.rs:64  let initial_size = 1024;   (scaled: 2 leaves)
InitialSize == 2

\* f64::INFINITY / f64::NEG_INFINITY: larger / smaller than every observation
INFINITY == 1000000
NEG_INFINITY == 0 - INFINITY

\* manager.rs:82  values.len() > 10_000   (scaled: 2 values)
MaxBatchSize == 2

\* manager.rs:42  mpsc::channel(100), the dispatcher's inbound channel (scaled)
ManagerChannelCapacity == 2

\* manager.rs:53  mpsc::channel(100), a worker's inbox (scaled)
TaskChannelCapacity == 2

\* web.rs:42  mpsc::channel(1), the reply channel of a command
RespChannelCapacity == 1

\* manager.rs:92  10usize.pow(k): the width of usize, 64 bits on the usual
\* targets (scaled: 8 bits, so that 10^3 overflows and 10^8 wraps to 0 as
\* 10^20 and 10^64 do in 64 bits)
USIZE_BITS == 8

\* observations appended in the tree specification
Values == {0 - 2, 1, 3}

\* cap on the number of observations appended to one tree (SpecTree)
MaxTotal == 5

\* longest batch handed to add_batch in SpecTree
MaxBatchLen == 5

\* longest run of observations folded in SpecMerge, and the most segments
\* it is cut into
MaxRun == 4
MaxParts == 3

\* number of commands sent to the dispatcher (SpecActor)
MaxCommands == 3

\* symbols, batches and window exponents carried by the commands (SpecActor):
\* an empty batch, valid batches of 1 and MaxBatchSize values, an oversize one
Symbols == {"A", "B"}
Batches == {<<>>, <<1>>, <<3, 0 - 2>>, <<1, 1, 3>>}
Ks == {0, 1}

\* batches and window exponents of SpecFault: an empty and a valid batch; an
\* exponent that fits, one whose power overflows usize and one whose power
\* wraps to 0
FaultBatches == {<<>>, <<3, 0 - 2>>}
FaultKs == {0, 3, 8}

\* the holders of a manager_tx clone that send commands in SpecBackpressure,
\* and the commands they send
NumSenders == 2
Senders == 1..NumSenders
BackpressureRequests ==
    {[kind |-> "AddBatch", values |-> <<1>>], [kind |-> "GetStats", k |-> 0]}

\* the batches sent to the worker of main.rs and the cap on its observations
MainBatches == {<<>>, <<1>>, <<3>>, <<2, 5>>, <<1, 2, 3, 4, 5>>}
MainMaxTotal == 7

\* the largest window_size of the deques of SpecDeque
MaxWindow == 3

\* the most values added to the store of SpecStore
MaxAdds == 5

\* number of envelopes sent to the dispatcher in SpecBlocking
MaxEnvelopes == 5

\* window exponents of SpecTransport: one that fits and one whose power
\* overflows usize
TransportKs == {0, 3}

\* the symbol and the batches of SpecAbandon
AbandonSymbol == "A"
AbandonBatches == {<<>>, <<1>>, <<3, 0 - 2>>}

\* ---------------------------------------------------------------------
\* Helpers
\* ---------------------------------------------------------------------

\* f64::min / f64::max on non-NaN operands
f64_min(a, b) == IF a < b THEN a ELSE b
f64_max(a, b) == IF a > b THEN a ELSE b

\* usize::saturating_sub
saturating_sub(a, b) == IF a > b THEN a - b ELSE 0

\* all sequences over S of length lo..hi
SeqsOf(S, lo, hi) == UNION {[1..n -> S] : n \in lo..hi}

\* ---------------------------------------------------------------------
\* segment.rs: NodeData
\* ---------------------------------------------------------------------

NodeData_new(value) ==
    [min |-> value, max |-> value, sum |-> value,
     sum_squares |-> value * value, count |-> 1, last |-> value]

NodeData_zero ==
    [min |-> INFINITY, max |-> NEG_INFINITY, sum |-> 0,
     sum_squares |-> 0, count |-> 0, last |-> 0]

\* variant of merge: last taken from the left operand
NodeData_merge_lastleft(left, right) ==
    IF left.count = 0 THEN right
    ELSE IF right.count = 0 THEN left
    ELSE [min |-> f64_min(left.min, right.min),
          max |-> f64_max(left.max, right.max),
          sum |-> left.sum + right.sum,
          sum_squares |-> left.sum_squares + right.sum_squares,
          count |-> left.count + right.count,
          last |-> left.last]

\* variant of merge: an empty right operand is merged like any other
NodeData_merge_norightcheck(left, right) ==
    IF left.count = 0 THEN right
    ELSE [min |-> f64_min(left.min, right.min),
          max |-> f64_max(left.max, right.max),
          sum |-> left.sum + right.sum,
          sum_squares |-> left.sum_squares + right.sum_squares,
          count |-> left.count + right.count,
          last |-> right.last]

NodeData_merge(left, right) ==
    IF left.count = 0 THEN right
    ELSE IF right.count = 0 THEN left
    ELSE [min |-> f64_min(left.min, right.min),
          max |-> f64_max(left.max, right.max),
          sum |-> left.sum + right.sum,
          sum_squares |-> left.sum_squares + right.sum_squares,
          count |-> left.count + right.count,
          last |-> right.last]

\* ---------------------------------------------------------------------
\* segment.rs: SegmentTree.  A tree value is a record
\*   [tree : 0..len-1 -> NodeData, size, current_position]
\* ---------------------------------------------------------------------

\* vec![NodeData::zero(); n]
ZeroVec(n) == [i \in 0..(n - 1) |-> NodeData_zero]

\* tree.len()
VecLen(v) == Cardinality(DOMAIN v)

SegmentTree_new ==
    [tree |-> ZeroVec(InitialSize * 2),
     size |-> InitialSize,
     current_position |-> 0]

\* variant of the doubling loop: grows to the needed size itself
GrowSize_exact(new_size, needed_size) ==
    IF new_size < needed_size THEN needed_size ELSE new_size

\* variant of the doubling loop: while new_size <= needed_size
RECURSIVE GrowSize_overshoot(_, _)
GrowSize_overshoot(new_size, needed_size) ==
    IF new_size <= needed_size THEN GrowSize_overshoot(new_size * 2, needed_size)
    ELSE new_size

\* let mut new_size = self.size; while new_size < needed_size { new_size *= 2 }
RECURSIVE GrowSize(_, _)
GrowSize(new_size, needed_size) ==
    IF new_size < needed_size THEN GrowSize(new_size * 2, needed_size)
    ELSE new_size

\* variant of the rebuild: internal nodes are left as allocated
Rebuild_skipped(tree, i) == tree

\* for i in (1..self.size).rev() { tree[i] = merge(tree[2i], tree[2i+1]) },
\* entered with i = size - 1
RECURSIVE Rebuild(_, _)
Rebuild(tree, i) ==
    IF i < 1 THEN tree
    ELSE Rebuild([tree EXCEPT ![i] = NodeData_merge(tree[i * 2], tree[i * 2 + 1])],
                 i - 1)

\* variant of the restore: leaves written back at the old leaf offset
RestoreLeaves_oldoffset(t, new_size) ==
    [i \in 0..(new_size * 2 - 1) |->
        IF i >= t.size /\ i - t.size < t.current_position
        THEN t.tree[i]
        ELSE NodeData_zero]

\* the fresh vector with the saved leaves restored at the new leaf offset
RestoreLeaves(t, new_size) ==
    [i \in 0..(new_size * 2 - 1) |->
        IF i >= new_size /\ i - new_size < t.current_position
        THEN t.tree[t.size + (i - new_size)]
        ELSE NodeData_zero]

ensure_capacity(t, needed_size) ==
    IF needed_size <= t.size THEN t
    ELSE LET new_size == GrowSize(t.size, needed_size)
         IN  [tree |-> Rebuild(RestoreLeaves(t, new_size), new_size - 1),
              size |-> new_size,
              current_position |-> t.current_position]

\* variant of the walk to the root: stops below the root
RECURSIVE UpdateWalk_belowroot(_, _)
UpdateWalk_belowroot(tree, node) ==
    IF node > 3
    THEN LET n == node \div 2
         IN  UpdateWalk_belowroot(
                 [tree EXCEPT ![n] = NodeData_merge(tree[n * 2], tree[n * 2 + 1])], n)
    ELSE tree

\* while node > 1 { node /= 2; tree[node] = merge(tree[2 node], tree[2 node+1]) }
RECURSIVE UpdateWalk(_, _)
UpdateWalk(tree, node) ==
    IF node > 1
    THEN LET n == node \div 2
         IN  UpdateWalk([tree EXCEPT ![n] = NodeData_merge(tree[n * 2], tree[n * 2 + 1])], n)
    ELSE tree

update(t, pos, value) ==
    LET node == pos + t.size
    IN  [t EXCEPT !.tree = UpdateWalk([t.tree EXCEPT ![node] = NodeData_new(value)], node)]

RECURSIVE query_internal(_, _, _, _, _, _)
query_internal(t, node, left, right, start, end) ==
    IF end <= left \/ right <= start THEN NodeData_zero
    ELSE IF start <= left /\ right <= end THEN t.tree[node]
    ELSE LET mid == (left + right) \div 2
             left_result == query_internal(t, node * 2, left, mid, start, end)
             right_result == query_internal(t, node * 2 + 1, mid, right, start, end)
         IN  NodeData_merge(left_result, right_result)

\* variant: the range always begins at the first leaf
query_range_fromzero(t, start, end) == query_internal(t, 1, 0, t.size, 0, end)

query_range(t, start, end) == query_internal(t, 1, 0, t.size, start, end)

\* for &value in values { self.update(self.current_position, value);
\*                        self.current_position += 1; }
RECURSIVE AddValues(_, _, _)
AddValues(t, values, i) ==
    IF i > Len(values) THEN t
    ELSE AddValues([update(t, t.current_position, values[i])
                        EXCEPT !.current_position = t.current_position + 1],
                   values, i + 1)

add_batch(t, values) ==
    AddValues(ensure_capacity(t, t.current_position + Len(values)), values, 1)

\* ---------------------------------------------------------------------
\* f64 quotients, kept exact as reduced fractions [num, den]
\* ---------------------------------------------------------------------

Abs(n) == IF n < 0 THEN 0 - n ELSE n

RECURSIVE Gcd(_, _)
Gcd(a, b) == IF b = 0 THEN a ELSE Gcd(b, a % b)

Frac(n, d) ==
    LET g == Gcd(Abs(n), d)
    IN  [num |-> n \div g, den |-> d \div g]

\* a / b for integral a and b > 0;  x * y and x - y on fractions
f64_div(a, b) == Frac(a, b)
f64_mul(x, y) == Frac(x.num * y.num, x.den * y.den)
f64_sub(x, y) == Frac(x.num * y.den - y.num * x.den, x.den * y.den)

\* ---------------------------------------------------------------------
\* manager.rs: SymbolTask
\* ---------------------------------------------------------------------

\* Stats { min: 0.0, max: 0.0, last: 0.0, avg: 0.0, var: 0.0 }
ZeroStats ==
    [min |-> 0, max |-> 0, last |-> 0, avg |-> Frac(0, 1), var |-> Frac(0, 1)]

\* usize::MAX
usize_MAX == 2 ^ USIZE_BITS - 1

\* 10^k, or usize::MAX + 1 when 10^k is above usize::MAX
RECURSIVE SaturatedPow10(_)
SaturatedPow10(k) ==
    IF k = 0 THEN 1
    ELSE LET p == SaturatedPow10(k - 1)
         IN  IF p * 10 > usize_MAX THEN usize_MAX + 1 ELSE p * 10

\* 10usize.pow(k) overflows: a panic where overflow checks are compiled in
\* (the default of a debug build), a wrapped result where they are not
Pow10Overflows(k) == SaturatedPow10(k) > usize_MAX

\* 10usize.pow(k) as computed without overflow checks: 10^k modulo 2^USIZE_BITS
RECURSIVE usize_pow10(_)
usize_pow10(k) ==
    IF k = 0 THEN 1 ELSE (usize_pow10(k - 1) * 10) % (2 ^ USIZE_BITS)

\* values.is_empty() || values.len() > 10_000
\* variant: values.len() >= 10_000
IsInvalidBatch_offbyone(values) == Len(values) = 0 \/ Len(values) >= MaxBatchSize

IsInvalidBatch(values) == Len(values) = 0 \/ Len(values) > MaxBatchSize

\* let total_elements = self.tree.current_position;
\* variant: the capacity is taken for the number of elements
TotalElements_size(t) == t.size

TotalElements(t) == t.current_position

\* the GetStats arm: the Stats sent on resp
GetStatsArm(t, k) ==
    LET kk == usize_pow10(k)
        total_elements == TotalElements(t)
        end == total_elements
        start == saturating_sub(end, kk)
        r == query_range(t, start, end)
    IN  IF r.count = 0 THEN ZeroStats
        ELSE LET avg == f64_div(r.sum, r.count)
                 var == f64_sub(f64_div(r.sum_squares, r.count), f64_mul(avg, avg))
             IN  [min |-> r.min, max |-> r.max, last |-> r.last,
                  avg |-> avg, var |-> var]

\* one iteration of the loop of SymbolTask::run on a received command: the
\* tree afterwards and the message sent on the command's resp
SymbolTask_run(t, command) ==
    IF command.kind = "AddBatch"
    THEN IF IsInvalidBatch(command.values)
         THEN [tree |-> t, reply |-> "Invalid batch size"]
         ELSE [tree |-> add_batch(t, command.values),
               reply |-> "Batch added successfully"]
    ELSE [tree |-> t, reply |-> GetStatsArm(t, command.k)]

\* let _ = resp.send(..).await: the outcome of the send is discarded, the
\* loop goes on whether or not the reply was delivered
\* variant: a failed send ends the loop
StopsOnReplyError_propagated(sent) == ~sent

StopsOnReplyError(sent) == FALSE

\* SymbolTask::new(task_rx)
SymbolTask_new(receiver) == [tree |-> SegmentTree_new, receiver |-> receiver]

\* ---------------------------------------------------------------------
\* manager.rs: SymbolManager
\* ---------------------------------------------------------------------

\* !self.symbol_tasks.contains_key(&symbol)
\* variant: a channel and a worker are made for every envelope
NeedsWorker_always(registry, symbol) == TRUE

NeedsWorker(registry, symbol) == symbol \notin DOMAIN registry

\* HashMap::insert(symbol, task_tx): adds the entry or replaces it
HashMap_insert(registry, symbol, task_tx) ==
    [x \in DOMAIN registry \cup {symbol} |->
        IF x = symbol THEN task_tx ELSE registry[x]]

\* self.symbol_tasks.get(&symbol): the inbox registered for the symbol
\* variant: the inbox of some registered symbol
HashMap_get_any(registry, symbol) == registry[CHOOSE x \in DOMAIN registry : TRUE]

HashMap_get(registry, symbol) == registry[symbol]

\* let _ = task_tx.send(command).await: a failed send leaves the registry alone
\* variant: the entry of the closed inbox is removed
AfterSendError_forget(registry, symbol) ==
    [x \in DOMAIN registry \ {symbol} |-> registry[x]]

AfterSendError(registry, symbol) == registry

\* the loop of SymbolManager::run calls manager_rx.recv() again only when
\* the send of the envelope in hand has completed
\* variant: the next envelope is received while a send is pending
ReadyToRecv_always(in_hand) == TRUE

ReadyToRecv(in_hand) == in_hand = <<>>

\* mpsc::Sender::send on a channel of the given capacity completes only
\* when the channel has a free slot
\* variant: the channel takes a message whatever it holds
HasRoom_unbounded(queue, capacity) == TRUE

\* variant: one slot of the capacity is never given out
HasRoom_oneless(queue, capacity) == Len(queue) + 1 < capacity

HasRoom(queue, capacity) == Len(queue) < capacity

\* task_tx.send(command): the command joins the back of the inbox
\* variant: the command overtakes the queued ones
Enqueue_front(queue, command) == <<command>> \o queue

Enqueue(queue, command) == Append(queue, command)

\* ---------------------------------------------------------------------
\* main.rs: the SegmentTree and the SymbolTask of the binary's entry point
\* ---------------------------------------------------------------------

\* (f64::INFINITY, f64::NEG_INFINITY, 0.0, 0.0): (min, max, sum, sum_sq)
Main_identity == <<INFINITY, NEG_INFINITY, 0, 0>>

\* SegmentTree::new() of main.rs
Main_SegmentTree_new == [size |-> 0, current_size |-> 0, data |-> <<>>]

\* usize::next_power_of_two
RECURSIVE PowerOfTwoFrom(_, _)
PowerOfTwoFrom(p, n) == IF p >= n THEN p ELSE PowerOfTwoFrom(2 * p, n)

next_power_of_two(n) == PowerOfTwoFrom(1, n)

\* Vec::resize(new_len, value): truncates, or extends with value
Vec_resize(v, new_len, value) ==
    [i \in 0..(new_len - 1) |-> IF i < VecLen(v) THEN v[i] ELSE value]

\* SegmentTree::resize of main.rs
Main_resize(t, new_size) ==
    LET tree_size == 2 * next_power_of_two(new_size)
    IN  [t EXCEPT !.size = new_size,
                  !.data = Vec_resize(t.data, tree_size, Main_identity)]

\* SegmentTree::merge of main.rs
Main_merge(a, b) ==
    <<f64_min(a[1], b[1]), f64_max(a[2], b[2]), a[3] + b[3], a[4] + b[4]>>

\* for (i, &value) in values.iter().enumerate() {
\*     self.data[self.current_size + i] = (value, value, value, value * value) }
Main_WriteLeaves(data, current_size, values) ==
    [idx \in DOMAIN data |->
        IF current_size <= idx /\ idx < current_size + Len(values)
        THEN LET value == values[idx - current_size + 1]
             IN  <<value, value, value, value * value>>
        ELSE data[idx]]

\* for idx in (1..self.current_size).rev() { self.data[idx] = merge of
\*     self.data[2 * idx] and self.data[2 * idx + 1] }
RECURSIVE Main_Parents(_, _)
Main_Parents(data, idx) ==
    IF idx < 1 THEN data
    ELSE Main_Parents([data EXCEPT ![idx] = Main_merge(data[2 * idx], data[2 * idx + 1])],
                      idx - 1)

\* SegmentTree::batch_update of main.rs
Main_batch_update(t, values) ==
    LET required_size == t.current_size + Len(values)
        resized == IF required_size > t.size THEN Main_resize(t, required_size) ELSE t
        leaves == Main_WriteLeaves(resized.data, t.current_size, values)
        parents == Main_Parents(leaves, t.current_size - 1)
    IN  [resized EXCEPT !.data = parents,
                        !.current_size = f64_max(t.current_size, required_size)]

\* the while l < r loop of SegmentTree::query of main.rs
RECURSIVE Main_QueryLoop(_, _, _, _)
Main_QueryLoop(data, l, r, result) ==
    IF ~(l < r) THEN result
    ELSE LET res1 == IF l % 2 = 1 THEN Main_merge(result, data[l]) ELSE result
             l1 == IF l % 2 = 1 THEN l + 1 ELSE l
             r1 == IF r % 2 = 1 THEN r - 1 ELSE r
             res2 == IF r % 2 = 1 THEN Main_merge(res1, data[r1]) ELSE res1
         IN  Main_QueryLoop(data, l1 \div 2, r1 \div 2, res2)

\* SegmentTree::query of main.rs
Main_query(t, left, right) ==
    Main_QueryLoop(t.data, left + t.size, right + t.size, Main_identity)

\* the GetStats arm of SymbolTask::run of main.rs: the StatsResponse sent
Main_GetStatsArm(t, k) ==
    LET kk == usize_pow10(k)
        total_elements == t.current_size
        end == total_elements
        start == IF end > kk THEN end - kk ELSE 0
        q == Main_query(t, start, end)
        count == end - start
    IN  IF count = 0 THEN ZeroStats
        ELSE LET avg == f64_div(q[3], count)
                 var == f64_sub(f64_div(q[4], count), f64_mul(avg, avg))
                 last == Main_query(t, end - 1, end)[3]
             IN  [min |-> q[1], max |-> q[2], last |-> last,
                  avg |-> avg, var |-> var]

\* ---------------------------------------------------------------------
\* interval_stat_deque.rs: IntervalStatDeque
\* ---------------------------------------------------------------------

\* usize::wrapping_add / usize::wrapping_sub
wrapping_add(a, b) == (a + b) % (2 ^ USIZE_BITS)
wrapping_sub(a, b) == (a + 2 ^ USIZE_BITS - b) % (2 ^ USIZE_BITS)

\* StatType::eval
StatType_eval(stat_type, last_value, new_value) ==
    IF stat_type = "Min" THEN last_value > new_value ELSE last_value < new_value

\* IntervalStatDeque::new(window_size, stat_type)
IntervalStatDeque_new(window_size, stat_type) ==
    [deque |-> <<>>, window_size |-> window_size, stat_type |-> stat_type,
     pos |-> 0]

\* IntervalStatDeque::is_in_window
\* variant: the position at the start of the window counts as inside
is_in_window_inclusive(d, pos) ==
    LET window_start == wrapping_sub(d.pos, d.window_size)
    IN  IF window_start <= d.pos
        THEN pos >= window_start /\ pos <= d.pos
        ELSE pos >= window_start \/ pos <= d.pos

\* variant: the window is never taken to wrap around
is_in_window_nowrap(d, pos) ==
    LET window_start == wrapping_sub(d.pos, d.window_size)
    IN  pos > window_start /\ pos <= d.pos

is_in_window(d, pos) ==
    LET window_start == wrapping_sub(d.pos, d.window_size)
    IN  IF window_start <= d.pos
        THEN pos > window_start /\ pos <= d.pos
        ELSE pos > window_start \/ pos <= d.pos

\* while let Some(&(pos, _)) = self.deque.front() {
\*     if !self.is_in_window(pos) { self.deque.pop_front(); } else { break; } }
RECURSIVE PopFrontLoop(_)
PopFrontLoop(d) ==
    IF d.deque # <<>> /\ ~is_in_window(d, Head(d.deque)[1])
    THEN PopFrontLoop([d EXCEPT !.deque = Tail(@)])
    ELSE d

\* while let Some(&(_, back_val)) = self.deque.back() {
\*     if self.stat_type.eval(back_val, val) { self.deque.pop_back(); } else { break; } }
RECURSIVE PopBackLoop(_, _)
PopBackLoop(d, val) ==
    IF d.deque # <<>> /\ StatType_eval(d.stat_type, d.deque[Len(d.deque)][2], val)
    THEN PopBackLoop([d EXCEPT !.deque = SubSeq(@, 1, Len(@) - 1)], val)
    ELSE d

\* IntervalStatDeque::push
IntervalStatDeque_push(d, val) ==
    LET kept == PopBackLoop(PopFrontLoop(d), val)
    IN  [kept EXCEPT !.deque = Append(@, <<d.pos, val>>),
                     !.pos = wrapping_add(d.pos, 1)]

\* IntervalStatDeque::stat
IntervalStatDeque_stat(d) == IF d.deque = <<>> THEN 0 ELSE Head(d.deque)[2]

\* ---------------------------------------------------------------------
\* datastore.rs: IntervalStatsStore
\* ---------------------------------------------------------------------

\* IntervalStatsStore::new(interval)
IntervalStatsStore_new(interval) ==
    [data |-> <<>>, interval |-> interval,
     deque_min |-> IntervalStatDeque_new(interval, "Min"),
     deque_max |-> IntervalStatDeque_new(interval, "Max"),
     sum |-> 0, sum_squares |-> 0, last |-> 0]

\* if self.data.len() > self.interval
\* variant: the window is cut as soon as it is full
WindowTooBig_atfull(data, interval) == Len(data) >= interval

WindowTooBig(data, interval) == Len(data) > interval

\* IntervalStatsStore::add
IntervalStatsStore_add(s, value) ==
    LET pushed == [s EXCEPT !.data = Append(@, value),
                            !.sum = @ + value,
                            !.sum_squares = @ + value * value,
                            !.last = value,
                            !.deque_min = IntervalStatDeque_push(@, value),
                            !.deque_max = IntervalStatDeque_push(@, value)]
    IN  IF WindowTooBig(pushed.data, pushed.interval)
        THEN LET to_remove == Head(pushed.data)
             IN  [pushed EXCEPT !.data = Tail(@),
                                !.sum = @ - to_remove,
                                !.sum_squares = @ - to_remove * to_remove]
        ELSE pushed

\* IntervalStatsStore::get_stats
IntervalStatsStore_get_stats(s) ==
    [min |-> IntervalStatDeque_stat(s.deque_min),
     max |-> IntervalStatDeque_stat(s.deque_max),
     sum |-> s.sum, sum_squares |-> s.sum_squares,
     count |-> Len(s.data), last |-> s.last]

\* ---------------------------------------------------------------------
\* State
\* ---------------------------------------------------------------------

VARIABLES
    st,         \* SpecTree: the SegmentTree under test
    appended,   \* SpecTree: every value passed to add_batch so far, in order
    ec,         \* SpecTree: the ensure_capacity call of the latest add_batch:
                \*           [before, needed, after]
    manager_rx,     \* SymbolManager::manager_rx: queued (symbol, command) envelopes
    held,           \* the envelope SymbolManager::run has received and not yet
                    \* forwarded (<<>> while it waits in recv)
    symbol_tasks,   \* SymbolManager::symbol_tasks: symbol -> inbox (channel number)
    task_rx,        \* the inboxes created so far, by channel number
    tasks,          \* the spawned SymbolTasks: [tree, receiver]
    resp_rx,        \* per command, the messages sent on its resp channel
    submitted,      \* every envelope in the order it entered the inbound channel
    seen,           \* the symbols of the envelopes the dispatcher has received
    processed,      \* [task, id] of every command a worker has handled, in order
    overflow_checks,    \* the build panics on integer overflow (TRUE) or wraps
    rx_closed,          \* the inboxes whose receiver is gone (worker ended)
    resp_tx_dropped,    \* the commands dropped with their resp sender unused
    resp_rx_dropped,    \* the commands whose caller gave up its reply receiver
    panicked,           \* the commands whose handling panicked
    send_failed,        \* the commands whose task_tx.send returned an error
    m_run,      \* SpecMerge: the run of observations being summarised
    m_pos,      \* SpecMerge: how many of them the segments folded so far cover
    m_acc,      \* SpecMerge: the left-to-right fold of the segment summaries
    m_parts,    \* SpecMerge: the segment summaries folded so far
    waiting,    \* SpecBackpressure: per sender, the envelope whose
                \*   manager_tx.send(..).await has not completed (<<>> if none)
    issued,     \* SpecBackpressure: per sender, the envelopes it has passed to
                \*   manager_tx.send so far, in order
    sender_of,  \* SpecBackpressure: for every submitted envelope, its sender
                \*   and whether the send had to wait
    main_tree,      \* SpecMain: the tree of a SymbolTask of main.rs
    main_appended,  \* SpecMain: the values of its AddBatch commands, in order
    main_reply,     \* SpecMain: the latest GetStats: <<>> or <<[k, seen, stats]>>
    main_status,    \* SpecMain: the latest AddBatch: <<>> or
                    \*   <<[values, before, status]>>, before being the tree
                    \*   when the command was received
    dq,             \* SpecDeque: the IntervalStatDeque under test
    dq_recent,      \* SpecDeque: the last min(n, window_size) pushes, oldest
                    \*   first, as <<position, value>>
    dq_wrapped,     \* SpecDeque: pos has wrapped past 0
    ds,             \* SpecStore: the IntervalStatsStore under test
    ds_added,       \* SpecStore: every value passed to add so far, in order
    responses       \* SpecTransport: [id, body] for every handler that has
                    \*   completed: the body of its HTTP response

treeVars == <<st, appended, ec>>
actorVars == <<manager_rx, held, symbol_tasks, task_rx, tasks, resp_rx,
               submitted, seen, processed>>
faultVars == <<overflow_checks, rx_closed, resp_tx_dropped, resp_rx_dropped,
               panicked, send_failed>>
mergeVars == <<m_run, m_pos, m_acc, m_parts>>
senderVars == <<waiting, issued, sender_of>>
mainVars == <<main_tree, main_appended, main_reply, main_status>>
dequeVars == <<dq, dq_recent, dq_wrapped>>
storeVars == <<ds, ds_added>>
transportVars == <<responses>>
vars == <<st, appended, ec, manager_rx, held, symbol_tasks, task_rx, tasks,
          resp_rx, submitted, seen, processed, overflow_checks, rx_closed,
          resp_tx_dropped, resp_rx_dropped, panicked, send_failed, m_run, m_pos,
          m_acc, m_parts, waiting, issued, sender_of, main_tree,
          main_appended, main_reply, main_status, dq, dq_recent, dq_wrapped,
          ds, ds_added, responses>>

\* the variables each specification leaves alone
treeForeign == <<actorVars, faultVars, mergeVars, senderVars, mainVars,
                 dequeVars, storeVars, transportVars>>
actorForeign == <<treeVars, mergeVars, mainVars, dequeVars, storeVars,
                  transportVars>>
mergeForeign == <<treeVars, actorVars, faultVars, senderVars, mainVars,
                  dequeVars, storeVars, transportVars>>
mainForeign == <<treeVars, actorVars, faultVars, mergeVars, senderVars,
                 dequeVars, storeVars, transportVars>>
dequeForeign == <<treeVars, actorVars, faultVars, mergeVars, senderVars,
                  mainVars, storeVars, transportVars>>
storeForeign == <<treeVars, actorVars, faultVars, mergeVars, senderVars,
                  mainVars, dequeVars, transportVars>>
transportForeign == <<treeVars, mergeVars, senderVars, mainVars, dequeVars,
                      storeVars>>

\* SymbolManager::new(): an empty inbound channel and an empty registry
InitActorVars ==
    /\ manager_rx = <<>>
    /\ held = <<>>
    /\ symbol_tasks = <<>>
    /\ task_rx = <<>>
    /\ tasks = <<>>
    /\ resp_rx = <<>>
    /\ submitted = <<>>
    /\ seen = {}
    /\ processed = <<>>
    /\ rx_closed = {}
    /\ resp_tx_dropped = {}
    /\ resp_rx_dropped = {}
    /\ panicked = {}
    /\ send_failed = {}

\* a store that is not exercised; no handler has completed
InitStoreVars ==
    /\ ds = IntervalStatsStore_new(1)
    /\ ds_added = <<>>
    /\ responses = {}

\* a deque that is not exercised
InitDequeVars ==
    /\ dq = IntervalStatDeque_new(1, "Max")
    /\ dq_recent = <<>>
    /\ dq_wrapped = FALSE

\* no sender has called send yet; SymbolTask::new of main.rs
InitSenderVars ==
    /\ main_tree = Main_SegmentTree_new
    /\ main_appended = <<>>
    /\ main_reply = <<>>
    /\ main_status = <<>>
    /\ waiting = [h \in Senders |-> <<>>]
    /\ issued = [h \in Senders |-> <<>>]
    /\ sender_of = <<>>

InitTreeVars ==
    /\ st = SegmentTree_new
    /\ appended = <<>>
    /\ ec = [before |-> SegmentTree_new, needed |-> 0, after |-> SegmentTree_new]

\* ---------------------------------------------------------------------
\* SpecTree: one SegmentTree driven by arbitrary add_batch calls
\* ---------------------------------------------------------------------

InitMergeVars ==
    /\ m_run = <<>>
    /\ m_pos = 0
    /\ m_acc = NodeData_zero
    /\ m_parts = <<>>

InitTree ==
    /\ InitTreeVars /\ InitActorVars /\ overflow_checks = FALSE /\ InitMergeVars
    /\ InitSenderVars /\ InitDequeVars /\ InitStoreVars

AddBatchCall(values) ==
    /\ Len(appended) + Len(values) <= MaxTotal
    /\ st' = add_batch(st, values)
    /\ appended' = appended \o values
    /\ ec' = [before |-> st,
              needed |-> st.current_position + Len(values),
              after |-> ensure_capacity(st, st.current_position + Len(values))]
    /\ UNCHANGED treeForeign

NextTree == \E values \in SeqsOf(Values, 0, MaxBatchLen) : AddBatchCall(values)

SpecTree == InitTree /\ [][NextTree]_vars

\* ---------------------------------------------------------------------
\* SpecActor: senders, the dispatcher and the per-symbol workers
\* ---------------------------------------------------------------------

\* no exponent of Ks overflows, so the build's overflow checks play no part
InitActor ==
    /\ InitTreeVars /\ InitActorVars /\ overflow_checks = FALSE /\ InitMergeVars
    /\ InitSenderVars /\ InitDequeVars /\ InitStoreVars

\* the commands a sender may build, before their resp channel is attached
Requests ==
    [kind : {"AddBatch"}, values : Batches] \cup [kind : {"GetStats"}, k : Ks]

\* ManagerCommand::AddBatch { values, resp } / ManagerCommand::GetStats { k, resp }
WithResp(request, resp) ==
    IF request.kind = "AddBatch"
    THEN [kind |-> "AddBatch", values |-> request.values, resp |-> resp]
    ELSE [kind |-> "GetStats", k |-> request.k, resp |-> resp]

\* a holder of manager_tx sends (symbol, command); the command's resp channel
\* is numbered by the command's place in the submission order.  The send
\* waits while the inbound channel is full.
Send(symbol, request) ==
    /\ Len(submitted) < MaxCommands
    /\ HasRoom(manager_rx, ManagerChannelCapacity)
    /\ LET id == Len(submitted) + 1
           envelope == [symbol |-> symbol, command |-> WithResp(request, id)]
       IN  /\ manager_rx' = Append(manager_rx, envelope)
           /\ submitted' = Append(submitted, envelope)
           /\ resp_rx' = Append(resp_rx, <<>>)
    /\ UNCHANGED <<held, symbol_tasks, task_rx, tasks, seen, processed>>
    /\ UNCHANGED faultVars
    /\ UNCHANGED actorForeign
    /\ UNCHANGED senderVars

\* SymbolManager::run, from manager_rx.recv() to the send: the envelope is
\* taken, and on the first envelope of a symbol an inbox is created,
\* registered and a worker spawned on it
DispatcherRecv ==
    /\ ReadyToRecv(held)
    /\ manager_rx # <<>>
    /\ LET envelope == Head(manager_rx)
           symbol == envelope.symbol
           task_tx == Len(task_rx) + 1
       IN  /\ manager_rx' = Tail(manager_rx)
           /\ held' = <<envelope>>
           /\ seen' = seen \cup {symbol}
           /\ IF NeedsWorker(symbol_tasks, symbol)
              THEN /\ task_rx' = Append(task_rx, <<>>)
                   /\ symbol_tasks' = HashMap_insert(symbol_tasks, symbol, task_tx)
                   /\ tasks' = Append(tasks, SymbolTask_new(task_tx))
              ELSE UNCHANGED <<task_rx, symbol_tasks, tasks>>
    /\ UNCHANGED <<resp_rx, submitted, processed>>
    /\ UNCHANGED faultVars
    /\ UNCHANGED actorForeign
    /\ UNCHANGED senderVars

\* SymbolManager::run, task_tx.send(command).await: waits while the inbox of
\* the symbol is full, then enqueues the command
DispatcherSend ==
    /\ held # <<>>
    /\ LET envelope == held[1]
       IN  /\ envelope.symbol \in DOMAIN symbol_tasks
           /\ LET task_tx == HashMap_get(symbol_tasks, envelope.symbol)
              IN  /\ task_tx \notin rx_closed
                  /\ HasRoom(task_rx[task_tx], TaskChannelCapacity)
                  /\ task_rx' = [task_rx EXCEPT
                                    ![task_tx] = Enqueue(@, envelope.command)]
    /\ held' = <<>>
    /\ UNCHANGED <<manager_rx, symbol_tasks, tasks, resp_rx, submitted, seen,
                   processed>>
    /\ UNCHANGED faultVars
    /\ UNCHANGED actorForeign
    /\ UNCHANGED senderVars

\* SymbolManager::run, task_tx.send(command).await on an inbox whose receiver
\* is gone: the send fails at once, the command is dropped with its resp
\* sender, and the loop goes on
DispatcherSendClosed ==
    /\ held # <<>>
    /\ LET envelope == held[1]
       IN  /\ envelope.symbol \in DOMAIN symbol_tasks
           /\ HashMap_get(symbol_tasks, envelope.symbol) \in rx_closed
           /\ resp_tx_dropped' = resp_tx_dropped \cup {envelope.command.resp}
           /\ send_failed' = send_failed \cup {envelope.command.resp}
           /\ symbol_tasks' = AfterSendError(symbol_tasks, envelope.symbol)
    /\ held' = <<>>
    /\ UNCHANGED <<manager_rx, task_rx, tasks, resp_rx, submitted, seen, processed>>
    /\ UNCHANGED <<overflow_checks, rx_closed, resp_rx_dropped, panicked>>
    /\ UNCHANGED actorForeign
    /\ UNCHANGED senderVars

\* the resp channels of the commands queued in an inbox
RespOf(queue) == {queue[i].resp : i \in DOMAIN queue}

\* handling the command panics: 10usize.pow(k) overflows in a build with
\* overflow checks
Panics(command) ==
    /\ overflow_checks
    /\ command.kind = "GetStats"
    /\ Pow10Overflows(command.k)

\* worker w can run an iteration of its loop to the end: its inbox is open
\* and holds a command whose handling does not panic and whose reply can be
\* sent or fails at once
WorkerReady(w) ==
    /\ tasks[w].receiver \notin rx_closed
    /\ task_rx[tasks[w].receiver] # <<>>
    /\ LET command == Head(task_rx[tasks[w].receiver])
       IN  /\ ~Panics(command)
           /\ command.resp \notin resp_rx_dropped
                 => HasRoom(resp_rx[command.resp], RespChannelCapacity)

\* SymbolTask::run, one iteration: receive a command, handle it, send the
\* reply.  The send fails when the caller has dropped the reply receiver,
\* and waits while the resp channel is full.
WorkerStep(w) ==
    /\ WorkerReady(w)
    /\ LET command == Head(task_rx[tasks[w].receiver])
           result == SymbolTask_run(tasks[w].tree, command)
           sent == command.resp \notin resp_rx_dropped
       IN  /\ tasks' = [tasks EXCEPT ![w].tree = result.tree]
           /\ resp_rx' = IF sent
                         THEN [resp_rx EXCEPT ![command.resp] = Append(@, result.reply)]
                         ELSE resp_rx
           /\ processed' = Append(processed, [task |-> w, id |-> command.resp])
           /\ IF StopsOnReplyError(sent)
              THEN /\ rx_closed' = rx_closed \cup {tasks[w].receiver}
                   /\ task_rx' = [task_rx EXCEPT ![tasks[w].receiver] = <<>>]
                   /\ resp_tx_dropped' = resp_tx_dropped
                          \cup RespOf(Tail(task_rx[tasks[w].receiver]))
              ELSE /\ task_rx' = [task_rx EXCEPT ![tasks[w].receiver] = Tail(@)]
                   /\ UNCHANGED <<rx_closed, resp_tx_dropped>>
    /\ UNCHANGED <<manager_rx, held, symbol_tasks, submitted, seen>>
    /\ UNCHANGED <<overflow_checks, resp_rx_dropped, panicked, send_failed>>
    /\ UNCHANGED actorForeign
    /\ UNCHANGED senderVars

\* SymbolTask::run panics in 10usize.pow(k): the task ends, its receiver is
\* dropped, and the command in hand and the queued ones are dropped with
\* their resp senders
WorkerPanic(w) ==
    /\ tasks[w].receiver \notin rx_closed
    /\ task_rx[tasks[w].receiver] # <<>>
    /\ Panics(Head(task_rx[tasks[w].receiver]))
    /\ panicked' = panicked \cup {Head(task_rx[tasks[w].receiver]).resp}
    /\ rx_closed' = rx_closed \cup {tasks[w].receiver}
    /\ resp_tx_dropped' = resp_tx_dropped \cup RespOf(task_rx[tasks[w].receiver])
    /\ task_rx' = [task_rx EXCEPT ![tasks[w].receiver] = <<>>]
    /\ UNCHANGED <<manager_rx, held, symbol_tasks, tasks, resp_rx, submitted,
                   seen, processed>>
    /\ UNCHANGED <<overflow_checks, resp_rx_dropped, send_failed>>
    /\ UNCHANGED actorForeign
    /\ UNCHANGED senderVars

\* the caller of command id gives up waiting and drops its reply receiver
\* before a reply has arrived
DropReceiver(id) ==
    /\ id \in DOMAIN submitted
    /\ resp_rx[id] = <<>>
    /\ id \notin resp_rx_dropped
    /\ id \notin resp_tx_dropped
    /\ resp_rx_dropped' = resp_rx_dropped \cup {id}
    /\ UNCHANGED actorVars
    /\ UNCHANGED <<overflow_checks, rx_closed, resp_tx_dropped, panicked,
                   send_failed>>
    /\ UNCHANGED actorForeign
    /\ UNCHANGED senderVars

NextActor ==
    \/ \E symbol \in Symbols : \E request \in Requests : Send(symbol, request)
    \/ DispatcherRecv
    \/ DispatcherSend
    \/ \E w \in DOMAIN tasks : WorkerStep(w)

SpecActor == InitActor /\ [][NextActor]_vars

\* ---------------------------------------------------------------------
\* SpecFault: the same fabric with window exponents whose power of ten
\* overflows usize, in a build with or without overflow checks
\* ---------------------------------------------------------------------

InitFault ==
    /\ InitTreeVars /\ InitActorVars /\ InitMergeVars /\ InitSenderVars
    /\ InitDequeVars /\ InitStoreVars
    /\ overflow_checks \in BOOLEAN

FaultRequests ==
    [kind : {"AddBatch"}, values : FaultBatches]
        \cup [kind : {"GetStats"}, k : FaultKs]

NextFault ==
    \/ \E symbol \in Symbols : \E request \in FaultRequests : Send(symbol, request)
    \/ DispatcherRecv
    \/ DispatcherSend
    \/ DispatcherSendClosed
    \/ \E w \in DOMAIN tasks : WorkerStep(w)
    \/ \E w \in DOMAIN tasks : WorkerPanic(w)

SpecFault == InitFault /\ [][NextFault]_vars

\* the dispatcher and every spawned worker are tasks of the runtime, which
\* runs each task that can take a step
FairFault ==
    /\ WF_vars(DispatcherRecv)
    /\ WF_vars(DispatcherSend)
    /\ WF_vars(DispatcherSendClosed)
    /\ \A w \in 1..Cardinality(Symbols) :
          WF_vars(w \in DOMAIN tasks /\ WorkerStep(w))
              /\ WF_vars(w \in DOMAIN tasks /\ WorkerPanic(w))

SpecFaultFair == SpecFault /\ FairFault

\* the same fabric and scheduling with GetStats commands only
PanicRequests == [kind : {"GetStats"}, k : TransportKs]

NextPanic ==
    \/ \E symbol \in Symbols : \E request \in PanicRequests : Send(symbol, request)
    \/ DispatcherRecv
    \/ DispatcherSend
    \/ DispatcherSendClosed
    \/ \E w \in DOMAIN tasks : WorkerStep(w)
    \/ \E w \in DOMAIN tasks : WorkerPanic(w)

SpecPanicFair == InitFault /\ [][NextPanic]_vars /\ FairFault

\* ---------------------------------------------------------------------
\* SpecAbandon: the fabric with callers that give up their reply receiver
\* ---------------------------------------------------------------------

InitAbandon ==
    /\ InitTreeVars /\ InitActorVars /\ overflow_checks = FALSE /\ InitMergeVars
    /\ InitSenderVars /\ InitDequeVars /\ InitStoreVars

AbandonRequests ==
    [kind : {"AddBatch"}, values : AbandonBatches]
        \cup [kind : {"GetStats"}, k : Ks]

NextAbandon ==
    \/ \E request \in AbandonRequests : Send(AbandonSymbol, request)
    \/ DispatcherRecv
    \/ DispatcherSend
    \/ \E w \in DOMAIN tasks : WorkerStep(w)
    \/ \E id \in 1..MaxCommands : DropReceiver(id)

SpecAbandon == InitAbandon /\ [][NextAbandon]_vars

\* ---------------------------------------------------------------------
\* SpecBackpressure: senders whose send on the inbound channel may have to
\* wait for a free slot
\* ---------------------------------------------------------------------

InitBackpressure ==
    /\ InitTreeVars /\ InitActorVars /\ overflow_checks = FALSE /\ InitMergeVars
    /\ InitSenderVars /\ InitDequeVars /\ InitStoreVars

\* the number of envelopes the senders have passed to send
IssuedCount(f, H) == LET RECURSIVE Sum(_)
                         Sum(S) == IF S = {} THEN 0
                                   ELSE LET h == CHOOSE x \in S : TRUE
                                        IN  Len(f[h]) + Sum(S \ {h})
                     IN  Sum(H)

\* the inbound channel takes the envelope of sender h
ChannelTakes(h, pending, waited) ==
    LET id == Len(submitted) + 1
        envelope == [symbol |-> pending.symbol,
                     command |-> WithResp(pending.request, id)]
    IN  /\ manager_rx' = Append(manager_rx, envelope)
        /\ submitted' = Append(submitted, envelope)
        /\ resp_rx' = Append(resp_rx, <<>>)
        /\ sender_of' = Append(sender_of, [sender |-> h, waited |-> waited])

\* sender h builds (symbol, command) and calls manager_tx.send(..).await:
\* with a free slot the channel takes the envelope at once, otherwise the
\* call is pending
SenderCall(h, symbol, request) ==
    /\ waiting[h] = <<>>
    /\ IssuedCount(issued, Senders) < MaxCommands
    /\ LET pending == [symbol |-> symbol, request |-> request]
       IN  /\ issued' = [issued EXCEPT ![h] = Append(@, pending)]
           /\ IF HasRoom(manager_rx, ManagerChannelCapacity)
              THEN /\ ChannelTakes(h, pending, FALSE)
                   /\ UNCHANGED waiting
              ELSE /\ waiting' = [waiting EXCEPT ![h] = <<pending>>]
                   /\ UNCHANGED <<manager_rx, submitted, resp_rx, sender_of>>
    /\ UNCHANGED <<held, symbol_tasks, task_rx, tasks, seen, processed>>
    /\ UNCHANGED faultVars
    /\ UNCHANGED actorForeign

\* the pending send of sender h completes once the inbound channel has a
\* free slot
SenderEnqueue(h) ==
    /\ waiting[h] # <<>>
    /\ HasRoom(manager_rx, ManagerChannelCapacity)
    /\ ChannelTakes(h, waiting[h][1], TRUE)
    /\ waiting' = [waiting EXCEPT ![h] = <<>>]
    /\ UNCHANGED issued
    /\ UNCHANGED <<held, symbol_tasks, task_rx, tasks, seen, processed>>
    /\ UNCHANGED faultVars
    /\ UNCHANGED actorForeign

NextBackpressure ==
    \/ \E h \in Senders : \E symbol \in Symbols :
          \E request \in BackpressureRequests : SenderCall(h, symbol, request)
    \/ \E h \in Senders : SenderEnqueue(h)
    \/ DispatcherRecv
    \/ DispatcherSend
    \/ \E w \in DOMAIN tasks : WorkerStep(w)

SpecBackpressure == InitBackpressure /\ [][NextBackpressure]_vars

\* ---------------------------------------------------------------------
\* SpecMain: one SymbolTask of main.rs handling AddBatch and GetStats commands
\* ---------------------------------------------------------------------

InitMain ==
    /\ InitTreeVars /\ InitActorVars /\ overflow_checks = FALSE /\ InitMergeVars
    /\ InitSenderVars /\ InitDequeVars /\ InitStoreVars

\* Command::AddBatch { values, resp }: batch_update, whatever the batch
MainAddBatch(values) ==
    /\ Len(main_appended) + Len(values) <= MainMaxTotal
    /\ main_tree' = Main_batch_update(main_tree, values)
    /\ main_appended' = main_appended \o values
    /\ main_status' = <<[values |-> values, before |-> main_tree,
                         status |-> "Batch added successfully"]>>
    /\ UNCHANGED main_reply
    /\ UNCHANGED mainForeign

\* Command::GetStats { k, resp }
MainGetStats(k) ==
    /\ main_reply' = <<[k |-> k, seen |-> main_appended,
                        stats |-> Main_GetStatsArm(main_tree, k)]>>
    /\ UNCHANGED <<main_tree, main_appended, main_status>>
    /\ UNCHANGED mainForeign

NextMain ==
    \/ \E values \in MainBatches : MainAddBatch(values)
    \/ \E k \in Ks : MainGetStats(k)

SpecMain == InitMain /\ [][NextMain]_vars

\* ---------------------------------------------------------------------
\* SpecDeque: one IntervalStatDeque and the values pushed into it
\* ---------------------------------------------------------------------

InitDeque ==
    /\ InitTreeVars /\ InitActorVars /\ overflow_checks = FALSE /\ InitMergeVars
    /\ InitSenderVars /\ InitStoreVars
    /\ \E window_size \in 1..MaxWindow : \E stat_type \in {"Min", "Max"} :
          dq = IntervalStatDeque_new(window_size, stat_type)
    /\ dq_recent = <<>>
    /\ dq_wrapped = FALSE

\* the last w elements of S, or all of them
KeepLast(S, w) == IF Len(S) > w THEN SubSeq(S, Len(S) - w + 1, Len(S)) ELSE S

\* swm.push(val)
Push(val) ==
    /\ dq' = IntervalStatDeque_push(dq, val)
    /\ dq_recent' = KeepLast(Append(dq_recent, <<dq.pos, val>>), dq.window_size)
    /\ dq_wrapped' = (dq_wrapped \/ wrapping_add(dq.pos, 1) < dq.pos)
    /\ UNCHANGED dequeForeign

NextDeque == \E val \in Values : Push(val)

SpecDeque == InitDeque /\ [][NextDeque]_vars

\* ---------------------------------------------------------------------
\* SpecStore: one IntervalStatsStore and the values added to it
\* ---------------------------------------------------------------------

InitStore ==
    /\ InitTreeVars /\ InitActorVars /\ overflow_checks = FALSE /\ InitMergeVars
    /\ InitSenderVars /\ InitDequeVars
    /\ \E interval \in 1..MaxWindow : ds = IntervalStatsStore_new(interval)
    /\ ds_added = <<>>
    /\ responses = {}

\* stats.add(value)
Add(value) ==
    /\ Len(ds_added) < MaxAdds
    /\ ds' = IntervalStatsStore_add(ds, value)
    /\ ds_added' = Append(ds_added, value)
    /\ UNCHANGED storeForeign

NextStore == \E value \in Values : Add(value)

SpecStore == InitStore /\ [][NextStore]_vars

\* ---------------------------------------------------------------------
\* SpecBlocking: enough envelopes to fill a worker inbox while envelopes of
\* the other symbol queue behind
\* ---------------------------------------------------------------------

InitBlocking ==
    /\ InitTreeVars /\ InitActorVars /\ overflow_checks = FALSE /\ InitMergeVars
    /\ InitSenderVars /\ InitDequeVars /\ InitStoreVars

\* manager_tx.send((sym, command)).await, as Send, for up to MaxEnvelopes
\* envelopes
Submit(symbol, request) ==
    /\ Len(submitted) < MaxEnvelopes
    /\ HasRoom(manager_rx, ManagerChannelCapacity)
    /\ LET id == Len(submitted) + 1
           envelope == [symbol |-> symbol, command |-> WithResp(request, id)]
       IN  /\ manager_rx' = Append(manager_rx, envelope)
           /\ submitted' = Append(submitted, envelope)
           /\ resp_rx' = Append(resp_rx, <<>>)
    /\ UNCHANGED <<held, symbol_tasks, task_rx, tasks, seen, processed>>
    /\ UNCHANGED faultVars
    /\ UNCHANGED actorForeign
    /\ UNCHANGED senderVars

NextBlocking ==
    \/ \E symbol \in Symbols : \E request \in BackpressureRequests :
          Submit(symbol, request)
    \/ DispatcherRecv
    \/ DispatcherSend
    \/ \E w \in DOMAIN tasks : WorkerStep(w)

SpecBlocking == InitBlocking /\ [][NextBlocking]_vars

\* ---------------------------------------------------------------------
\* SpecTransport: the fabric of SpecFault with the handlers of web.rs that
\* wait for the reply to the command they sent
\* ---------------------------------------------------------------------

InitTransport ==
    /\ InitTreeVars /\ InitActorVars /\ InitMergeVars /\ InitSenderVars
    /\ InitDequeVars /\ InitStoreVars
    /\ overflow_checks \in BOOLEAN

TransportRequests ==
    [kind : {"AddBatch"}, values : FaultBatches]
        \cup [kind : {"GetStats"}, k : TransportKs]

\* .unwrap_or("Failed to add batch".to_string())
\* variant: the fallback reports success
AddBatchFallback_success == "Batch added successfully"

AddBatchFallback == "Failed to add batch"

\* .unwrap_or(Stats { min: 0.0, max: 0.0, last: 0.0, avg: 0.0, var: 0.0 })
GetStatsFallback == ZeroStats

\* resp_rx.recv().await: Some(message) once a message was sent, None once
\* the resp sender is gone with nothing sent, pending otherwise
\* variant: recv stays pending although the sender is gone
Recv_nohangup(messages, sender_gone) ==
    IF messages # <<>> THEN [ready |-> TRUE, some |-> <<messages[1]>>]
    ELSE [ready |-> FALSE, some |-> <<>>]

Recv(messages, sender_gone) ==
    IF messages # <<>> THEN [ready |-> TRUE, some |-> <<messages[1]>>]
    ELSE IF sender_gone THEN [ready |-> TRUE, some |-> <<>>]
    ELSE [ready |-> FALSE, some |-> <<>>]

\* Json(AddBatchResponse { status })
AddBatchResponse(status) == [status |-> status]

\* the handlers that have completed
Responded == {r.id : r \in responses}

\* handle_add_batch / handle_get_stats from resp_rx.recv().await on: the
\* handler of command id gets the reply or the fallback and completes
HandlerRecv(id) ==
    /\ id \in DOMAIN submitted
    /\ id \notin Responded
    /\ id \notin resp_rx_dropped
    /\ LET received == Recv(resp_rx[id], id \in resp_tx_dropped)
           body == IF submitted[id].command.kind = "AddBatch"
                   THEN AddBatchResponse(IF received.some # <<>>
                                         THEN received.some[1]
                                         ELSE AddBatchFallback)
                   ELSE IF received.some # <<>> THEN received.some[1]
                        ELSE GetStatsFallback
       IN  /\ received.ready
           /\ responses' = responses \cup {[id |-> id, body |-> body]}
    /\ UNCHANGED actorVars
    /\ UNCHANGED faultVars
    /\ UNCHANGED transportForeign

\* a step of the dispatcher, of a worker or of a handler waiting for a reply
TaskStep ==
    \/ DispatcherRecv
    \/ DispatcherSend
    \/ DispatcherSendClosed
    \/ \E w \in DOMAIN tasks : WorkerStep(w)
    \/ \E w \in DOMAIN tasks : WorkerPanic(w)
    \/ \E id \in 1..MaxCommands : HandlerRecv(id)

NextTransport ==
    \/ \E symbol \in Symbols : \E request \in TransportRequests :
          Send(symbol, request)
    \/ TaskStep

SpecTransport == InitTransport /\ [][NextTransport]_vars

\* ---------------------------------------------------------------------
\* SpecMerge: a run of observations cut into contiguous segments whose
\* summaries are folded left to right with NodeData::merge
\* ---------------------------------------------------------------------

\* the summary of a segment as the tree forms it: its singletons merged in order
RECURSIVE SegmentSummary(_)
SegmentSummary(T) ==
    IF T = <<>> THEN NodeData_zero
    ELSE NodeData_merge(SegmentSummary(SubSeq(T, 1, Len(T) - 1)),
                        NodeData_new(T[Len(T)]))

InitMerge ==
    /\ m_run \in SeqsOf(Values, 0, MaxRun)
    /\ m_pos = 0
    /\ m_acc = NodeData_zero
    /\ m_parts = <<>>
    /\ InitTreeVars /\ InitActorVars /\ overflow_checks = FALSE
    /\ InitSenderVars /\ InitDequeVars /\ InitStoreVars

\* the next len observations form a segment; its summary is merged on the
\* right of the fold
FoldSegment(len) ==
    /\ m_pos + len <= Len(m_run)
    /\ Len(m_parts) < MaxParts
    /\ LET part == SegmentSummary(SubSeq(m_run, m_pos + 1, m_pos + len))
       IN  /\ m_acc' = NodeData_merge(m_acc, part)
           /\ m_parts' = Append(m_parts, part)
    /\ m_pos' = m_pos + len
    /\ UNCHANGED m_run
    /\ UNCHANGED mergeForeign

NextMerge == \E len \in 0..MaxRun : FoldSegment(len)

SpecMerge == InitMerge /\ [][NextMerge]_vars

\* ---------------------------------------------------------------------
\* Naive reductions over a sequence of observations
\* ---------------------------------------------------------------------

Min2(a, b) == IF a < b THEN a ELSE b

Range(T) == {T[i] : i \in DOMAIN T}

NaiveMin(T) == IF T = <<>> THEN INFINITY
               ELSE CHOOSE m \in Range(T) : \A x \in Range(T) : m <= x

NaiveMax(T) == IF T = <<>> THEN NEG_INFINITY
               ELSE CHOOSE m \in Range(T) : \A x \in Range(T) : m >= x

RECURSIVE NaiveSum(_)
NaiveSum(T) == IF T = <<>> THEN 0 ELSE T[1] + NaiveSum(Tail(T))

RECURSIVE NaiveSumSquares(_)
NaiveSumSquares(T) == IF T = <<>> THEN 0 ELSE T[1] * T[1] + NaiveSumSquares(Tail(T))

\* the last min(Len(S), w) elements of S
LastN(S, w) == SubSeq(S, Len(S) - Min2(Len(S), w) + 1, Len(S))

IsPowerOfTwo(n) == \E k \in 0..(MaxTotal + 2) : 2 ^ k = n

\* window sizes tried: every small w and the worker's 10^k
Windows == (1..(MaxTotal + 2)) \cup {10, 100}

\* positions tried as query bounds (reaching beyond the largest size)
Positions == 0..(2 * MaxTotal + 1)

\* ---------------------------------------------------------------------
\* Claims on the segment tree (SpecTree)
\* ---------------------------------------------------------------------

\* C1: after add_batch calls whose concatenated values are S (n = |S|), for
\* every window size w >= 1, query_range(n - min(n, w), n) has count
\* min(n, w) and min, max, sum, sum_squares equal to the naive reductions
\* over the last min(n, w) elements of S, and last = S[n-1] when n > 0.
C1_SuffixQuery ==
    \A w \in Windows :
        LET n == Len(appended)
            c == Min2(n, w)
            T == LastN(appended, w)
            r == query_range(st, n - c, n)
        IN  /\ st.current_position = n
            /\ r.count = c
            /\ r.min = NaiveMin(T)
            /\ r.max = NaiveMax(T)
            /\ r.sum = NaiveSum(T)
            /\ r.sum_squares = NaiveSumSquares(T)
            /\ (n > 0 => r.last = appended[n])

\* a grown tree queried over a proper suffix holding different values
C1_Witness ==
    /\ st.size > InitialSize
    /\ Len(appended) = MaxTotal
    /\ LET r == query_range(st, Len(appended) - 3, Len(appended))
       IN  r.count = 3 /\ r.min < r.max /\ r.last # r.max

\* C6: after any sequence of add_batch calls, growth included, every
\* internal node i in [1, size) is the merge of its two children.
C6_InternalNodes ==
    \A i \in 1..(st.size - 1) :
        st.tree[i] = NodeData_merge(st.tree[2 * i], st.tree[2 * i + 1])

\* a tree that grew twice and whose root summarises several observations
C6_Witness ==
    /\ st.size = 4 * InitialSize
    /\ st.tree[1].count = st.current_position
    /\ st.tree[1].count > 4
    /\ st.tree[1].min < st.tree[1].max

\* C7: every leaf below current_position is the singleton summary of the
\* observation appended at that position, and every leaf from
\* current_position up to size is the identity.
C7_Leaves ==
    /\ \A p \in 0..(st.current_position - 1) :
          /\ p + 1 \in DOMAIN appended
          /\ st.tree[st.size + p] =
                [min |-> appended[p + 1], max |-> appended[p + 1],
                 sum |-> appended[p + 1],
                 sum_squares |-> appended[p + 1] * appended[p + 1],
                 count |-> 1, last |-> appended[p + 1]]
    /\ \A p \in st.current_position..(st.size - 1) :
          /\ st.tree[st.size + p].count = 0
          /\ st.tree[st.size + p] = NodeData_zero

\* leaves that survived a growth next to identity leaves
C7_Witness ==
    /\ st.size > InitialSize
    /\ ec.needed > ec.before.size
    /\ ec.before.current_position > 0
    /\ st.current_position < st.size
    /\ st.tree[st.size].count = 1

\* C8: size is a power of two, size >= the initial size, 0 <= current_position
\* <= size, tree.len() = 2 * size, and current_position is the number of
\* observations passed to add_batch so far.
C8_Shape ==
    /\ IsPowerOfTwo(st.size)
    /\ st.size >= InitialSize
    /\ 0 <= st.current_position
    /\ st.current_position <= st.size
    /\ VecLen(st.tree) = 2 * st.size
    /\ DOMAIN st.tree = 0..(2 * st.size - 1)
    /\ st.current_position = Len(appended)

\* a growth that skipped a size, and a full tree
C8_Witness ==
    /\ ec.after.size = 4 * ec.before.size
    /\ st.current_position > 4

\* the tree obtained from a fresh tree by one add_batch per element of S
RECURSIVE OneByOne(_, _, _)
OneByOne(t, S, i) ==
    IF i > Len(S) THEN t ELSE OneByOne(add_batch(t, <<S[i]>>), S, i + 1)

SameAnswers(t1, t2) ==
    \A start \in Positions : \A end \in Positions :
        query_range(t1, start, end) = query_range(t2, start, end)

\* C9: two sequences of add_batch calls on fresh trees with the same
\* concatenated values S answer every query_range(start, end) alike: the
\* tree reached here agrees with the tree built one element at a time and
\* with every tree built from S cut into two batches.
C9_BatchBoundaries ==
    /\ SameAnswers(st, OneByOne(SegmentTree_new, appended, 1))
    /\ \A cut \in 0..Len(appended) :
          SameAnswers(st,
              add_batch(add_batch(SegmentTree_new, SubSeq(appended, 1, cut)),
                        SubSeq(appended, cut + 1, Len(appended))))

\* the last call grew a non-empty tree, so the single-batch tree grew at
\* another point than this one
C9_Witness ==
    /\ ec.needed > ec.before.size
    /\ ec.before.current_position > 0
    /\ st.size = 4 * InitialSize
    /\ query_range(st, 1, Len(appended)).count = Len(appended) - 1

\* C10: ensure_capacity(needed) leaves the tree unchanged when needed <= size;
\* when needed > size the new size is the smallest power of two >= needed,
\* current_position is unchanged and every query_range(a, b) with
\* 0 <= a <= b <= current_position answers as before the growth.
C10_EnsureCapacity ==
    /\ ec.needed <= ec.before.size => ec.after = ec.before
    /\ ec.needed > ec.before.size =>
          /\ IsPowerOfTwo(ec.after.size)
          /\ ec.after.size >= ec.needed
          /\ ec.after.size \div 2 < ec.needed
          /\ ec.after.current_position = ec.before.current_position
          /\ \A a \in 0..ec.before.current_position :
                \A b \in a..ec.before.current_position :
                    query_range(ec.after, a, b) = query_range(ec.before, a, b)

\* a growth of a full tree to exactly the needed power of two
C10_Witness ==
    /\ ec.needed > ec.before.size
    /\ ec.needed = ec.after.size
    /\ ec.before.current_position = ec.before.size
    /\ query_range(ec.after, 0, ec.before.current_position).count = ec.before.size

\* ---------------------------------------------------------------------
\* Claims on the dispatcher and the workers (SpecActor)
\* ---------------------------------------------------------------------

\* the ids of the commands handled so far
ProcessedIds == {processed[i].id : i \in DOMAIN processed}

\* the place of command id in the order of handling
ProcessedAt(id) == CHOOSE i \in DOMAIN processed : processed[i].id = id

\* C2: for two commands A and B of the same symbol that entered the inbound
\* channel in the order A then B, the workers handle A before B: B is never
\* handled while A is not, and A's handling precedes B's.
C2_PerSymbolFIFO ==
    \A a \in DOMAIN submitted : \A b \in DOMAIN submitted :
        (a < b /\ submitted[a].symbol = submitted[b].symbol /\ b \in ProcessedIds)
            => /\ a \in ProcessedIds
               /\ ProcessedAt(a) < ProcessedAt(b)

\* two commands of one symbol handled while another symbol's command, sent
\* between them, is still on its way
C2_Witness ==
    /\ Len(submitted) = 3
    /\ submitted[1].symbol = submitted[3].symbol
    /\ submitted[2].symbol # submitted[1].symbol
    /\ 1 \in ProcessedIds /\ 3 \in ProcessedIds /\ 2 \notin ProcessedIds

\* the workers spawned on the inbox registered for symbol s
WorkersOf(s) == {w \in DOMAIN tasks : tasks[w].receiver = symbol_tasks[s]}

C3_OnePerSymbol ==
    /\ DOMAIN symbol_tasks = seen
    /\ \A s \in seen : symbol_tasks[s] \in DOMAIN task_rx /\ Cardinality(WorkersOf(s)) = 1
    /\ \A s1 \in seen : \A s2 \in seen : s1 # s2 => symbol_tasks[s1] # symbol_tasks[s2]
    /\ Len(tasks) = Cardinality(seen)
    /\ Len(task_rx) = Cardinality(seen)

C3_EntriesKept ==
    \A s \in DOMAIN symbol_tasks :
        s \in DOMAIN symbol_tasks' /\ symbol_tasks'[s] = symbol_tasks[s]

\* C3: in every reachable state each symbol the dispatcher has seen has
\* exactly one registry entry and exactly one spawned worker (as many workers
\* and inboxes as symbols seen), and a registry entry, once inserted, is
\* never removed or replaced by a different inbox.
C3_Registry == []C3_OnePerSymbol /\ [][C3_EntriesKept]_vars

\* both symbols registered, and a later envelope of a registered symbol
\* received by the dispatcher
C3_Witness ==
    /\ seen = Symbols
    /\ Len(submitted) = 3
    /\ manager_rx = <<>>
    /\ held # <<>>
    /\ Len(tasks) = 2

\* the values of the valid AddBatch commands for symbol s among the first n
\* envelopes that entered the inbound channel, in that order
RECURSIVE ValidValuesBefore(_, _)
ValidValuesBefore(s, n) ==
    IF n = 0 THEN <<>>
    ELSE LET c == submitted[n].command
         IN  IF /\ submitted[n].symbol = s
                /\ c.kind = "AddBatch"
                /\ 1 <= Len(c.values)
                /\ Len(c.values) <= MaxBatchSize
             THEN ValidValuesBefore(s, n - 1) \o c.values
             ELSE ValidValuesBefore(s, n - 1)

\* the Stats of a window T of observations, reduced naively
NaiveStats(T) ==
    IF T = <<>> THEN ZeroStats
    ELSE [min |-> NaiveMin(T), max |-> NaiveMax(T), last |-> T[Len(T)],
          avg |-> Frac(NaiveSum(T), Len(T)),
          var |-> Frac(NaiveSumSquares(T) * Len(T) - NaiveSum(T) * NaiveSum(T),
                       Len(T) * Len(T))]

\* C4: a GetStats reply for symbol s is computed from exactly the values of
\* the valid AddBatch commands for s that entered the dispatcher before that
\* GetStats, in their submission order, and from none that entered after it.
C4_StatsSeePrefix ==
    \A g \in DOMAIN submitted :
        (submitted[g].command.kind = "GetStats" /\ resp_rx[g] # <<>>)
            => resp_rx[g] =
                <<NaiveStats(LastN(ValidValuesBefore(submitted[g].symbol, g - 1),
                                   10 ^ submitted[g].command.k))>>

\* a GetStats answered between two valid AddBatch commands of its symbol,
\* after the later one was appended too
C4_Witness ==
    /\ Len(submitted) = 3
    /\ submitted[1].symbol = submitted[2].symbol
    /\ submitted[3].symbol = submitted[2].symbol
    /\ submitted[1].command.kind = "AddBatch"
    /\ submitted[2].command.kind = "GetStats"
    /\ submitted[3].command.kind = "AddBatch"
    /\ Len(submitted[1].command.values) = 2
    /\ Len(submitted[3].command.values) = 1
    /\ resp_rx[2] # <<>>
    /\ resp_rx[2][1].min < resp_rx[2][1].max
    /\ resp_rx[3] = <<"Batch added successfully">>

\* the step from the unprimed to the primed state is a worker handling a command
WorkerHandled == Len(processed') = Len(processed) + 1

\* C5: a worker handling an AddBatch of length 0 or above the maximum replies
\* "Invalid batch size" and leaves its tree (current_position, size and
\* every node) unchanged; handling one of length 1..maximum it replies
\* "Batch added successfully" and raises current_position by that length.
C5_BatchValidation ==
    [][WorkerHandled =>
        LET e == processed'[Len(processed')]
            c == submitted[e.id].command
        IN  c.kind = "AddBatch" =>
              IF Len(c.values) = 0 \/ Len(c.values) > MaxBatchSize
              THEN /\ resp_rx'[e.id] = <<"Invalid batch size">>
                   /\ tasks'[e.task].tree = tasks[e.task].tree
              ELSE /\ resp_rx'[e.id] = <<"Batch added successfully">>
                   /\ tasks'[e.task].tree.current_position =
                        tasks[e.task].tree.current_position + Len(c.values)
                   /\ tasks'[e.task].tree.current_position > 0
    ]_vars

\* a worker that appended a batch of the maximal length, then rejected an
\* oversize batch and an empty one
C5_Witness ==
    /\ Len(processed) = 3
    /\ \A i \in 1..3 : processed[i].task = processed[1].task
    /\ \A i \in 1..3 : submitted[processed[i].id].command.kind = "AddBatch"
    /\ Len(submitted[processed[1].id].command.values) = MaxBatchSize
    /\ Len(submitted[processed[2].id].command.values) > MaxBatchSize
    /\ Len(submitted[processed[3].id].command.values) = 0
    /\ resp_rx[processed[1].id] = <<"Batch added successfully">>
    /\ resp_rx[processed[2].id] = <<"Invalid batch size">>
    /\ resp_rx[processed[3].id] = <<"Invalid batch size">>
    /\ tasks[processed[1].task].tree.current_position = MaxBatchSize

\* ---------------------------------------------------------------------
\* Claims on NodeData::merge (SpecMerge)
\* ---------------------------------------------------------------------

\* the summary of a run of observations, reduced naively
NaiveSummary(T) ==
    [min |-> NaiveMin(T), max |-> NaiveMax(T), sum |-> NaiveSum(T),
     sum_squares |-> NaiveSumSquares(T), count |-> Len(T),
     last |-> IF T = <<>> THEN 0 ELSE T[Len(T)]]

\* the summaries at hand: the identity, the segments and the fold
MergeOperands == {NodeData_zero, m_acc} \cup Range(m_parts)

\* C11: merge is associative, NodeData::zero() is its two-sided identity,
\* its last is right.last when right.count > 0 and left.last otherwise, and
\* the left-to-right fold of the summaries of the contiguous segments of a
\* run equals the summary of the run, with last its rightmost observation.
C11_MergeLaws ==
    /\ \A x \in MergeOperands :
          /\ NodeData_merge(NodeData_zero, x) = x
          /\ NodeData_merge(x, NodeData_zero) = x
    /\ \A x \in MergeOperands : \A y \in MergeOperands :
          NodeData_merge(x, y).last = IF y.count > 0 THEN y.last ELSE x.last
    /\ \A x \in MergeOperands : \A y \in MergeOperands : \A z \in MergeOperands :
          NodeData_merge(NodeData_merge(x, y), z)
              = NodeData_merge(x, NodeData_merge(y, z))
    /\ m_acc = NaiveSummary(SubSeq(m_run, 1, m_pos))
    /\ m_pos > 0 => m_acc.last = m_run[m_pos]

\* a run folded from three segments, the middle one empty, with distinct
\* extrema and a last observation that is neither
C11_Witness ==
    /\ Len(m_parts) = 3
    /\ m_pos = Len(m_run)
    /\ m_pos = MaxRun
    /\ m_parts[1].count > 0 /\ m_parts[2].count = 0 /\ m_parts[3].count > 1
    /\ m_acc.min < m_acc.last /\ m_acc.last < m_acc.max

\* ---------------------------------------------------------------------
\* Claims on the fabric with overflowing exponents (SpecFault)
\* ---------------------------------------------------------------------

\* the commands a worker has taken from its inbox
TakenIds == ProcessedIds \cup panicked

\* C12: a GetStats taken by the worker of a symbol without accepted
\* observations is answered with Stats of all 0.0, for every k; with accepted
\* observations it is answered with the min, max and last of the queried
\* window (the zeroed Stats if that window is empty), never with the
\* identity values +inf / -inf.
C12_Claim ==
    \A g \in TakenIds :
        submitted[g].command.kind = "GetStats" =>
            LET V == ValidValuesBefore(submitted[g].symbol, g - 1)
                T == LastN(V, usize_pow10(submitted[g].command.k))
            IN  /\ Len(resp_rx[g]) = 1
                /\ V = <<>> => resp_rx[g][1] = ZeroStats
                /\ V # <<>> =>
                      /\ resp_rx[g][1].min # INFINITY
                      /\ resp_rx[g][1].max # NEG_INFINITY
                      /\ resp_rx[g][1].min = NaiveStats(T).min
                      /\ resp_rx[g][1].max = NaiveStats(T).max
                      /\ resp_rx[g][1].last = NaiveStats(T).last

\* C14: under fair scheduling of the dispatcher and the workers, every
\* envelope accepted by the inbound channel is eventually handled by its
\* symbol's worker and answered with exactly one reply on its resp channel.
C14_Claim ==
    \A id \in 1..MaxCommands :
        [](id \in DOMAIN submitted
              => <>(id \in ProcessedIds /\ Len(resp_rx[id]) = 1))

\* C15: a GetStats whose 10^k exceeds the range of usize is answered with
\* the statistics of all the observations of its symbol (start = 0, end =
\* current_position), as for any k with 10^k >= current_position.
C15_Claim ==
    \A g \in TakenIds :
        (submitted[g].command.kind = "GetStats"
            /\ Pow10Overflows(submitted[g].command.k))
            => resp_rx[g] =
                <<NaiveStats(ValidValuesBefore(submitted[g].symbol, g - 1))>>

\* ---------------------------------------------------------------------
\* C13: per-symbol isolation (SpecActor)
\* ---------------------------------------------------------------------

\* the commands for symbol s among the first n submitted envelopes, in order
RECURSIVE CommandsOf(_, _)
CommandsOf(s, n) ==
    IF n = 0 THEN <<>>
    ELSE IF submitted[n].symbol = s
         THEN Append(CommandsOf(s, n - 1), submitted[n].command)
         ELSE CommandsOf(s, n - 1)

\* a worker fed the commands C alone, one after the other, from a new tree:
\* the tree at the end and the reply to the last command
RECURSIVE SoloRun(_)
SoloRun(C) ==
    IF C = <<>> THEN [tree |-> SegmentTree_new, reply |-> <<>>]
    ELSE SymbolTask_run(SoloRun(SubSeq(C, 1, Len(C) - 1)).tree, C[Len(C)])

\* the commands of task w handled so far
HandledBy(w) == {processed[i].id : i \in {j \in DOMAIN processed : processed[j].task = w}}

\* C13: whatever the interleaving with the other symbol's commands, every
\* reply to a command for a symbol is the reply of a run in which only that
\* symbol's commands are submitted, in the same relative order, and the tree
\* of the symbol's worker is the tree of that run: the other symbol's
\* commands never change it
C13_Isolation ==
    /\ \A g \in ProcessedIds :
          resp_rx[g] = <<SoloRun(CommandsOf(submitted[g].symbol, g)).reply>>
    /\ \A s \in DOMAIN symbol_tasks : \A w \in WorkersOf(s) :
          LET H == {g \in DOMAIN submitted : g \in HandledBy(w)}
              n == IF H = {} THEN 0 ELSE CHOOSE g \in H : \A h \in H : h <= g
          IN  /\ \A g \in H : submitted[g].symbol = s
              /\ tasks[w].tree = SoloRun(CommandsOf(s, n)).tree

\* both symbols have observations, their commands alternate in the
\* submission order, and a GetStats for the first symbol was answered after
\* the other symbol's batch was appended
C13_Witness ==
    /\ Len(submitted) = 3
    /\ submitted[1].symbol = submitted[3].symbol
    /\ submitted[2].symbol # submitted[1].symbol
    /\ submitted[1].command.kind = "AddBatch"
    /\ submitted[2].command.kind = "AddBatch"
    /\ submitted[3].command.kind = "GetStats"
    /\ \A s \in Symbols : s \in DOMAIN symbol_tasks
          /\ \A w \in WorkersOf(s) : tasks[w].tree.current_position > 0
    /\ Len(processed) = 3
    /\ processed[2].id = 2
    /\ processed[3].id = 3

\* ---------------------------------------------------------------------
\* C16: reply receiver dropped by the caller (SpecAbandon)
\* ---------------------------------------------------------------------

\* the handled commands whose caller had dropped the reply receiver
Abandoned == ProcessedIds \cap resp_rx_dropped

\* no reply reaches a dropped receiver; no worker has ended; every delivered
\* reply and the worker's tree are those of a run in which every command,
\* abandoned or not, took effect
C16_Inv ==
    /\ \A g \in resp_rx_dropped : resp_rx[g] = <<>>
    /\ rx_closed = {}
    /\ \A g \in ProcessedIds \ resp_rx_dropped :
          resp_rx[g] = <<SoloRun(CommandsOf(submitted[g].symbol, g)).reply>>
    /\ \A w \in DOMAIN tasks :
          LET H == HandledBy(w)
              n == IF H = {} THEN 0 ELSE CHOOSE g \in H : \A h \in H : h <= g
          IN  tasks[w].tree = SoloRun(CommandsOf(AbandonSymbol, n)).tree

\* the step that handles an abandoned command applies the command to the
\* tree and leaves the rest of the inbox to be handled next
C16_Step ==
    \A w \in DOMAIN tasks :
        (WorkerStep(w) /\ Head(task_rx[tasks[w].receiver]).resp \in resp_rx_dropped)
            => /\ tasks'[w].tree =
                      SymbolTask_run(tasks[w].tree,
                                     Head(task_rx[tasks[w].receiver])).tree
               /\ task_rx'[tasks[w].receiver] = Tail(task_rx[tasks[w].receiver])
               /\ tasks'[w].receiver \notin rx_closed'
               /\ resp_rx' = resp_rx

\* C16: when the caller has dropped the reply receiver before the worker
\* replies, the reply is not delivered, the command still takes effect, the
\* worker does not end, and the following commands are handled as if the
\* reply had been delivered
C16_DroppedReceiver == []C16_Inv /\ [][C16_Step]_vars

\* a valid AddBatch whose caller had given up was handled, and a later
\* GetStats was answered with the statistics of its values
C16_Witness ==
    \E a \in Abandoned : \E g \in ProcessedIds \ resp_rx_dropped :
        /\ a < g
        /\ submitted[a].command.kind = "AddBatch"
        /\ ~IsInvalidBatch(submitted[a].command.values)
        /\ submitted[g].command.kind = "GetStats"
        /\ \A h \in 1..(g - 1) : h # a => submitted[h].command.kind = "GetStats"
        /\ resp_rx[g] # <<ZeroStats>>
        /\ Len(resp_rx[g]) = 1

\* ---------------------------------------------------------------------
\* C17: backpressure (SpecBackpressure)
\* ---------------------------------------------------------------------

\* the request a command was built from
RequestOf(command) ==
    IF command.kind = "AddBatch"
    THEN [kind |-> "AddBatch", values |-> command.values]
    ELSE [kind |-> "GetStats", k |-> command.k]

\* the envelopes of sender h among the first n submitted ones, in order
RECURSIVE SubmittedBy(_, _)
SubmittedBy(h, n) ==
    IF n = 0 THEN <<>>
    ELSE IF sender_of[n].sender = h
         THEN Append(SubmittedBy(h, n - 1),
                     [symbol |-> submitted[n].symbol,
                      request |-> RequestOf(submitted[n].command)])
         ELSE SubmittedBy(h, n - 1)

\* no channel holds more than its capacity, and what a sender has passed to
\* send is, in order, what the channel took from it followed by the envelope
\* it is waiting to enqueue
C17_Inv ==
    /\ Len(manager_rx) <= ManagerChannelCapacity
    /\ \A c \in DOMAIN task_rx : Len(task_rx[c]) <= TaskChannelCapacity
    /\ \A h \in Senders :
          issued[h] = SubmittedBy(h, Len(submitted)) \o waiting[h]

\* a sender (or the dispatcher, towards a worker inbox) facing a full
\* channel keeps its envelope and the channel keeps its content until a
\* receive frees a slot
C17_Step ==
    /\ \A h \in Senders :
          (waiting[h] # <<>> /\ Len(manager_rx) = ManagerChannelCapacity)
              => /\ waiting'[h] = waiting[h]
                 /\ \/ manager_rx' = manager_rx
                    \/ manager_rx' = Tail(manager_rx)
    /\ \A h \in Senders :
          (waiting[h] # <<>> /\ waiting'[h] = <<>>)
              => /\ Len(manager_rx) < ManagerChannelCapacity
                 /\ manager_rx' = Append(manager_rx, submitted'[Len(submitted')])
                 /\ sender_of'[Len(sender_of')].sender = h
    /\ (held # <<>> /\ held' = <<>>)
          => LET c == symbol_tasks[held[1].symbol]
             IN  /\ Len(task_rx[c]) < TaskChannelCapacity
                 /\ task_rx'[c] = Append(task_rx[c], held[1].command)

\* C17: the inbound channel and every worker inbox hold at most their
\* capacity; a sender facing a full channel waits for a free slot, and its
\* command is then enqueued, neither dropped nor reordered with respect to
\* that sender's earlier commands
C17_Backpressure == []C17_Inv /\ [][C17_Step]_vars

\* a sender with an earlier envelope found the inbound channel full, waited,
\* and had its envelope taken behind the earlier one once the dispatcher had
\* freed a slot; the dispatcher in turn waits on a full worker inbox
C17_Witness ==
    /\ \E n \in DOMAIN sender_of :
          /\ sender_of[n].waited
          /\ \E m \in 1..(n - 1) : sender_of[m].sender = sender_of[n].sender
    /\ held # <<>>
    /\ Len(task_rx[symbol_tasks[held[1].symbol]]) = TaskChannelCapacity

\* ---------------------------------------------------------------------
\* C18: enqueue on a closed worker inbox (SpecFault)
\* ---------------------------------------------------------------------

\* the dispatcher holds an envelope for a symbol whose worker has ended
HoldsForClosed ==
    /\ held # <<>>
    /\ held[1].symbol \in DOMAIN symbol_tasks
    /\ symbol_tasks[held[1].symbol] \in rx_closed

\* a command whose enqueue failed is never handled nor answered, and the
\* dispatcher can always finish the failed enqueue and take the next envelope
C18_Inv ==
    /\ \A d \in send_failed :
          /\ resp_rx[d] = <<>>
          /\ d \notin TakenIds
          /\ d \in resp_tx_dropped
          /\ submitted[d].symbol \in DOMAIN symbol_tasks
          /\ symbol_tasks[submitted[d].symbol] \in rx_closed
    /\ HoldsForClosed => ENABLED DispatcherSendClosed
    /\ HoldsForClosed => ~ENABLED DispatcherSend

\* the step in which the enqueue fails drops the command, answers nothing,
\* spawns nothing and leaves the registry and the inboxes as they were
C18_Step ==
    (HoldsForClosed /\ held' # held)
        => /\ held' = <<>>
           /\ send_failed' = send_failed \cup {held[1].command.resp}
           /\ symbol_tasks' = symbol_tasks
           /\ tasks' = tasks
           /\ task_rx' = task_rx
           /\ resp_rx' = resp_rx
           /\ manager_rx' = manager_rx

\* C18: when the worker of a symbol has ended, the dispatcher's enqueue of a
\* command for the symbol fails, the command is dropped without a reply, the
\* registry entry stays (no new worker is spawned), and the dispatcher goes
\* on with the following envelopes of every symbol
C18_ClosedInbox == []C18_Inv /\ [][C18_Step]_vars

\* after a failed enqueue for one symbol, whose registry entry is still
\* there and whose worker was not replaced, a later envelope of the other
\* symbol was forwarded and answered
C18_Witness ==
    \E d \in send_failed :
        /\ \E g \in ProcessedIds :
              /\ g > d
              /\ submitted[g].symbol # submitted[d].symbol
              /\ Len(resp_rx[g]) = 1
        /\ Cardinality(DOMAIN symbol_tasks) = Cardinality(Symbols)
        /\ Len(tasks) = Cardinality(Symbols)

\* ---------------------------------------------------------------------
\* C19: query_range on empty, reversed and overlong ranges (SpecTree)
\* ---------------------------------------------------------------------

\* C19: query_range(start, end) is the identity summary whenever
\* start >= end or start >= current_position, and for end > current_position
\* it is the summary of [start, current_position): the positions past
\* current_position contribute nothing, on the empty tree and for end > size too
C19_QueryEdges ==
    \A start \in Positions : \A end \in Positions :
        /\ (start >= end \/ start >= st.current_position)
              => query_range(st, start, end) = NodeData_zero
        /\ end > st.current_position
              => query_range(st, start, end)
                    = query_range(st, start, st.current_position)

\* a grown tree with observations and unused leaves, on which a range
\* reaching past the capacity has a summary other than the identity and a
\* reversed range inside the observations is asked for
C19_Witness ==
    /\ st.size > InitialSize
    /\ 1 < st.current_position
    /\ st.current_position < st.size
    /\ st.size + 1 \in Positions
    /\ query_range(st, 1, st.size + 1) # NodeData_zero
    /\ query_range(st, 1, st.size + 1) = NaiveSummary(SubSeq(appended, 2, Len(appended)))
    /\ query_range(st, st.current_position - 1, 1) = NodeData_zero

\* ---------------------------------------------------------------------
\* C20: the statistics of the worker of main.rs (SpecMain)
\* ---------------------------------------------------------------------

\* C20: after AddBatch commands whose values in order are S, the reply of
\* the worker of main.rs to GetStats(k) has the minimum, maximum and final
\* element of the last min(|S|, 10^k) values of S, and the avg and var
\* computed from their sum and sum of squares
C20_Claim ==
    \A i \in DOMAIN main_reply :
        main_reply[i].seen # <<>>
            => main_reply[i].stats
                  = NaiveStats(LastN(main_reply[i].seen, usize_pow10(main_reply[i].k)))

\* ---------------------------------------------------------------------
\* C21: batch validation in the worker of main.rs (SpecMain)
\* ---------------------------------------------------------------------

\* C21: the worker of main.rs answers an AddBatch with an empty values list
\* or with more than 10,000 values with "Invalid batch size" and leaves the
\* tree as it was
C21_Claim ==
    \A i \in DOMAIN main_status :
        IsInvalidBatch(main_status[i].values)
            => /\ main_status[i].status = "Invalid batch size"
               /\ main_tree = main_status[i].before

\* ---------------------------------------------------------------------
\* C22: IntervalStatDeque against the naive window (SpecDeque)
\* ---------------------------------------------------------------------

\* the values of the last min(n, window_size) pushes
RecentValues == [i \in DOMAIN dq_recent |-> dq_recent[i][2]]

\* the maximum (Max) or minimum (Min) of the last min(n, window_size) pushes
NaiveStat ==
    IF dq.stat_type = "Max" THEN NaiveMax(RecentValues) ELSE NaiveMin(RecentValues)

\* after every push, stat() is the naive one and the deque is no longer
\* than the window
StatAndLength ==
    dq_recent # <<>>
        => /\ IntervalStatDeque_stat(dq) = NaiveStat
           /\ Len(dq.deque) <= dq.window_size

\* C22 as stated: after every push stat() is the maximum (minimum) of the
\* last min(n + 1, W) pushed values, the stored positions are strictly
\* increasing front to back, and the deque is no longer than W
C22_Original ==
    /\ StatAndLength
    /\ \A i \in DOMAIN dq.deque : \A j \in DOMAIN dq.deque :
          i < j => dq.deque[i][1] < dq.deque[j][1]

\* how many pushes ago position p was assigned, counted modulo 2^USIZE_BITS
Age(p) == wrapping_sub(dq.pos, p)

\* C22 amended: stat() and the length are as stated; the stored positions are
\* in push order, each within the last W positions counted modulo the width
\* of usize, and strictly increasing as long as pos has not wrapped
C22_Amended ==
    /\ StatAndLength
    /\ \A i \in DOMAIN dq.deque :
          /\ 1 <= Age(dq.deque[i][1])
          /\ Age(dq.deque[i][1]) <= dq.window_size
          /\ \A j \in DOMAIN dq.deque :
                i < j => Age(dq.deque[i][1]) > Age(dq.deque[j][1])
    /\ ~dq_wrapped =>
          \A i \in DOMAIN dq.deque : \A j \in DOMAIN dq.deque :
              i < j => dq.deque[i][1] < dq.deque[j][1]

\* more values than the window holds were pushed, the deque holds as many
\* entries as the window, and an older, larger (smaller) value has left it
C22_Witness ==
    /\ ~dq_wrapped
    /\ dq.pos > dq.window_size + 1
    /\ dq.window_size = MaxWindow
    /\ Len(dq.deque) = dq.window_size
    /\ Len(dq_recent) = dq.window_size
    /\ IntervalStatDeque_stat(dq) = dq_recent[1][2]
    /\ dq_recent[1][2] # dq_recent[2][2]

\* ---------------------------------------------------------------------
\* C23: IntervalStatsStore against the naive window (SpecStore)
\* ---------------------------------------------------------------------

\* the last min(n, interval) values added
StoreWindow == LastN(ds_added, ds.interval)

\* C23: after any sequence of add calls data holds the last min(n, I) values
\* and never more than I, and get_stats() has count = min(n, I), the last
\* value added, and the sum, sum of squares, minimum and maximum of those
\* values: the deques and the data window describe the same observations
C23_StoreWindow ==
    /\ Len(ds.data) = Min2(Len(ds_added), ds.interval)
    /\ ds.data = StoreWindow
    /\ ds_added # <<>> =>
          LET stats == IntervalStatsStore_get_stats(ds)
          IN  /\ stats.count = Min2(Len(ds_added), ds.interval)
              /\ stats.last = ds_added[Len(ds_added)]
              /\ stats.sum = NaiveSum(StoreWindow)
              /\ stats.sum_squares = NaiveSumSquares(StoreWindow)
              /\ stats.min = NaiveMin(StoreWindow)
              /\ stats.max = NaiveMax(StoreWindow)

\* more values than the interval were added, and the values that left the
\* window include the smallest and the largest added so far
C23_Witness ==
    /\ ds.interval > 1
    /\ Len(ds_added) > ds.interval + 1
    /\ NaiveMin(ds_added) < NaiveMin(StoreWindow)
    /\ NaiveMax(ds_added) > NaiveMax(StoreWindow)
    /\ IntervalStatsStore_get_stats(ds).min = NaiveMin(StoreWindow)
    /\ IntervalStatsStore_get_stats(ds).sum = NaiveSum(StoreWindow)

\* ---------------------------------------------------------------------
\* C26: IntervalStatDeque across wrap-around of pos (SpecDeque)
\* ---------------------------------------------------------------------

\* the deque as the latest push saw it when it tested its front: pos is the
\* position that push assigned
DuringPush == [dq EXCEPT !.pos = wrapping_sub(dq.pos, 1)]

\* the positions of the last min(n, window_size) pushes
RecentPositions == {dq_recent[i][1] : i \in DOMAIN dq_recent}

\* the positions stored in the deque
StoredPositions == {dq.deque[i][1] : i \in DOMAIN dq.deque}

\* C26: with pos advanced by wrapping_add, is_in_window holds exactly of the
\* positions of the last W pushes, and of every stored position while fewer
\* than W values have been pushed; stat() is the maximum (minimum) of the
\* last min(n, W) pushed values, also after pos has wrapped past 0
C26_WrapAround ==
    dq_recent # <<>> =>
        /\ Len(dq_recent) = dq.window_size =>
              \A p \in 0..usize_MAX :
                  is_in_window(DuringPush, p) <=> p \in RecentPositions
        /\ \A p \in StoredPositions :
              is_in_window(DuringPush, p) /\ p \in RecentPositions
        /\ IntervalStatDeque_stat(dq) = NaiveStat

\* pos has wrapped past 0 and the window lies across the wrap: the deque
\* holds the last position before the wrap in front of one from after it,
\* with different values, and stat() is that of the window
C26_Witness ==
    /\ dq_wrapped
    /\ Len(dq.deque) >= 2
    /\ dq.deque[1][1] > dq.deque[Len(dq.deque)][1]
    /\ dq.deque[1][1] = usize_MAX
    /\ dq.pos < dq.window_size
    /\ IntervalStatDeque_stat(dq) = NaiveStat
    /\ dq.deque[1][2] # dq.deque[Len(dq.deque)][2]

\* ---------------------------------------------------------------------
\* C25: head-of-line blocking in the dispatcher (SpecBlocking)
\* ---------------------------------------------------------------------

\* the inbox the envelope in the dispatcher's hand goes to
HeldInbox == symbol_tasks[held[1].symbol]

\* SymbolManager::run is waiting to enqueue into a full worker inbox
DispatcherBlocked ==
    /\ held # <<>>
    /\ Len(task_rx[HeldInbox]) = TaskChannelCapacity

\* the commands queued in some inbox
Queued == UNION {RespOf(task_rx[c]) : c \in DOMAIN task_rx}

\* while the dispatcher is blocked, no envelope that entered the inbound
\* channel after the one in its hand has reached a worker
C25_Inv ==
    DispatcherBlocked =>
        \A g \in DOMAIN submitted :
            g > held[1].command.resp => g \notin Queued \cup ProcessedIds

\* a step taken while the dispatcher is blocked dequeues nothing from the
\* inbound channel and forwards nothing; an inbox gains a command only from
\* the dispatcher's hand and only when it has a free slot
C25_Step ==
    /\ DispatcherBlocked =>
          /\ held' = held
          /\ \/ manager_rx' = manager_rx
             \/ /\ Len(manager_rx') = Len(manager_rx) + 1
                /\ SubSeq(manager_rx', 1, Len(manager_rx)) = manager_rx
          /\ DOMAIN task_rx' = DOMAIN task_rx
          /\ \A c \in DOMAIN task_rx : Len(task_rx'[c]) <= Len(task_rx[c])
    /\ \A c \in DOMAIN task_rx :
          Len(task_rx'[c]) > Len(task_rx[c])
              => /\ held # <<>>
                 /\ c = HeldInbox
                 /\ Len(task_rx[c]) < TaskChannelCapacity
                 /\ task_rx'[c] = Append(task_rx[c], held[1].command)

\* C25: while SymbolManager::run waits to enqueue a command into a full
\* worker inbox, it dequeues and forwards no envelope of any other symbol;
\* envelopes of another symbol that entered the inbound channel later reach
\* their worker only after the full inbox's worker has freed a slot
C25_HeadOfLine == []C25_Inv /\ [][C25_Step]_vars

\* the dispatcher waits on the full inbox of one symbol while an envelope
\* of the other symbol, whose worker is idle, is queued behind in the
\* inbound channel
C25_Witness ==
    /\ DispatcherBlocked
    /\ manager_rx # <<>>
    /\ manager_rx[1].symbol # held[1].symbol
    /\ manager_rx[1].symbol \in DOMAIN symbol_tasks
    /\ task_rx[symbol_tasks[manager_rx[1].symbol]] = <<>>

\* ---------------------------------------------------------------------
\* C27: the handlers' fallback when the reply sender is gone (SpecTransport)
\* ---------------------------------------------------------------------

\* the commands dropped with their reply sender and nothing sent on it
DroppedUnanswered == {id \in resp_tx_dropped : resp_rx[id] = <<>>}

\* the values worker w has appended: those of the valid AddBatch commands
\* among the first n it handled, in order
RECURSIVE AppendedBy(_, _)
AppendedBy(w, n) ==
    IF n = 0 THEN <<>>
    ELSE LET c == submitted[processed[n].id].command
         IN  IF processed[n].task = w /\ c.kind = "AddBatch"
                                      /\ ~IsInvalidBatch(c.values)
             THEN AppendedBy(w, n - 1) \o c.values
             ELSE AppendedBy(w, n - 1)

\* the leaves of worker w's tree hold exactly the values it has appended
TreeHoldsAppended(w) ==
    LET t == tasks[w].tree
        V == AppendedBy(w, Len(processed))
    IN  /\ t.current_position = Len(V)
        /\ \A p \in 0..(Len(V) - 1) : t.tree[t.size + p] = NodeData_new(V[p + 1])

\* a handler whose command was dropped unanswered can complete, and has
\* completed only with the fallback of its kind; a handler that reported
\* success had its batch appended by the worker
C27_Inv ==
    /\ \A id \in DroppedUnanswered :
          /\ id \notin Responded => ENABLED HandlerRecv(id)
          /\ \A r \in responses :
                r.id = id =>
                    r.body = IF submitted[id].command.kind = "AddBatch"
                             THEN [status |-> "Failed to add batch"]
                             ELSE ZeroStats
    /\ \A r \in responses :
          r.body = [status |-> "Batch added successfully"]
              => /\ submitted[r.id].command.kind = "AddBatch"
                 /\ ~IsInvalidBatch(submitted[r.id].command.values)
                 /\ r.id \in ProcessedIds
                 /\ TreeHoldsAppended(processed[ProcessedAt(r.id)].task)
    /\ \A id \in DOMAIN submitted :
          Cardinality({r \in responses : r.id = id}) <= 1

\* the step that completes the handler of a dropped command returns the
\* fallback and nothing else
C27_Step ==
    \A id \in DroppedUnanswered :
        (id \notin Responded /\ id \in Responded')
            => responses' = responses \cup
                  {[id |-> id,
                    body |-> IF submitted[id].command.kind = "AddBatch"
                             THEN [status |-> "Failed to add batch"]
                             ELSE ZeroStats]}

\* C27: when a command is dropped without a reply, handle_add_batch completes
\* with status "Failed to add batch" and handle_get_stats with Stats of all
\* 0.0, so neither waits forever; handle_add_batch returns "Batch added
\* successfully" only if the worker appended the batch
C27_Fallback == []C27_Inv /\ [][C27_Step]_vars

\* an AddBatch and a GetStats were both dropped unanswered, one by the
\* worker's end and one by the dispatcher's failed enqueue, and both
\* handlers have completed with their fallback; another handler reported a
\* batch that was appended
C27_Witness ==
    /\ \E a \in DroppedUnanswered : \E g \in DroppedUnanswered :
          /\ submitted[a].command.kind = "AddBatch"
          /\ submitted[g].command.kind = "GetStats"
          /\ [id |-> a, body |-> [status |-> "Failed to add batch"]] \in responses
          /\ [id |-> g, body |-> ZeroStats] \in responses
          /\ {a, g} \cap send_failed # {}
    /\ \E r \in responses : r.body = [status |-> "Batch added successfully"]

\* ---------------------------------------------------------------------
\* C24: deadlock freedom of the fabric (SpecTransport)
\* ---------------------------------------------------------------------

\* the commands whose handler has not completed
InFlight == {id \in DOMAIN submitted : id \notin Responded}

\* the command worker w would handle next, if any
NextCommand(w) ==
    IF tasks[w].receiver \notin rx_closed /\ task_rx[tasks[w].receiver] # <<>>
    THEN <<Head(task_rx[tasks[w].receiver])>>
    ELSE <<>>

\* C24: whenever a command is in flight, the dispatcher, a worker or a
\* handler can take a step; no reply channel ever holds more than its one
\* message, so the reply send of the command a worker is about to handle
\* never waits
C24_DeadlockFree ==
    /\ InFlight # {} =>
          \/ ENABLED DispatcherRecv
          \/ ENABLED DispatcherSend
          \/ ENABLED DispatcherSendClosed
          \/ \E w \in DOMAIN tasks : WorkerReady(w) \/ ENABLED WorkerPanic(w)
          \/ \E id \in DOMAIN submitted : ENABLED HandlerRecv(id)
    /\ \A id \in DOMAIN resp_rx : Len(resp_rx[id]) <= RespChannelCapacity
    /\ \A w \in DOMAIN tasks :
          \A i \in DOMAIN NextCommand(w) :
              /\ resp_rx[NextCommand(w)[i].resp] = <<>>
              /\ WorkerReady(w) \/ ENABLED WorkerPanic(w)

\* every handler waits for its reply and the dispatcher waits on a full
\* worker inbox: only that inbox's worker can take a step, and its reply
\* send has room
C24_Witness ==
    /\ InFlight = DOMAIN submitted
    /\ Len(submitted) = MaxCommands
    /\ held # <<>>
    /\ Len(task_rx[symbol_tasks[held[1].symbol]]) = TaskChannelCapacity
    /\ \A id \in DOMAIN submitted : ~ENABLED HandlerRecv(id)
    /\ ~ENABLED DispatcherRecv
    /\ ~ENABLED DispatcherSend
    /\ ~ENABLED DispatcherSendClosed
    /\ \E w \in DOMAIN tasks : WorkerReady(w)

====
